---- MODULE Spec2Model ----
(***************************************************************************)
(* Model of the diagram generator: the module-level canvas store of       *)
(* tools/mcp_tools.py, the renderer behind it, and the orchestration of   *)
(* DiagramAgent.generate_diagram in agents/diagram_agent.py.              *)
(***************************************************************************)
EXTENDS Bags, FiniteSets, Integers, Sequences, TLC

VARIABLES
    CANVASES,          \* _CANVASES: canvas id -> Diagram (what has been drawn into it)
    NODES,             \* _NODES: canvas id -> (node id -> node type of the icon object)
    CLUSTERS,          \* _CLUSTERS: canvas id -> (cluster id -> cluster display name)
    files,             \* PNG files of _TEMP_DIR, oldest first: <<[path, content]>>
    CREATED_FILES,     \* _CREATED_FILES: the paths tracked for cleanup
    ops,               \* number of direct store operations issued so far (store client)
    last,              \* the last direct store operation and what it returned
    pc,                \* position of generate_diagram
    description,       \* request.description, a string of characters
    monitoring_requested,
    allowed_components,
    reasoning,
    tool_calls,        \* the plan returned by the planner
    idx,               \* position of the plan loop (1-based index of the next element)
    canvas_id,
    image_path,
    created_nodes,     \* node id -> node type, as tracked by the plan loop
    existing_edges,    \* set of <<source, target>> tracked by the plan loop
    response,          \* the DiagramResponse returned, or None
    calls,             \* history: the calls issued to mcp_tools by this generation
    probe,             \* input and output of a pure function under test
    gemini,            \* the GeminiClient.generate_json_response call in progress
    suspended,         \* the locals of a second generate_diagram call waiting at an await
    http               \* api/routes/diagram.py: _agent_instance and the requests in progress

storeVars == <<CANVASES, NODES, CLUSTERS, files, CREATED_FILES>>
clientVars == <<ops, last>>
genVars == <<pc, description, monitoring_requested, allowed_components, reasoning,
             tool_calls, idx, canvas_id, image_path, created_nodes, existing_edges,
             response, calls>>
vars == <<CANVASES, NODES, CLUSTERS, files, CREATED_FILES, ops, last, pc, description,
          monitoring_requested, allowed_components, reasoning, tool_calls, idx,
          canvas_id, image_path, created_nodes, existing_edges, response, calls, probe, gemini,
          suspended, http>>

(***************************************************************************)
(* Python values                                                           *)
(***************************************************************************)
None == "<None>"

\* Python truthiness of an optional string: None and "" are falsy
Truthy(x) == x \notin {None, ""}

\* An empty Python dict
EmptyDict == [k \in {} |-> None]

\* dict.get(key, default)
Get(d, key, default) == IF key \in DOMAIN d THEN d[key] ELSE default

\* d[key] = value on a dict
Put(d, key, value) == [k \in DOMAIN d \cup {key} |-> IF k = key THEN value ELSE d[k]]

(***************************************************************************)
(* Bounds                                                                  *)
(***************************************************************************)
MaxOps == 5        \* direct store operations issued by the store client
MaxPlan == 3       \* longest plan the planner returns

(***************************************************************************)
(* The canvas store and the renderer (tools/mcp_tools.py)                  *)
(***************************************************************************)
OK == "ok"
CanvasNotFound == "Canvas not found"
ClusterExists == "Cluster already exists"
NodeExists == "Node already exists"
ClusterNotFound == "Cluster not found"
UnsupportedNodeType == "Unsupported node type"
SourceNotFound == "Source node not found"
TargetNotFound == "Target node not found"
RendererError == "renderer raised"
FileNotFound == "Could not find rendered diagram"

\* a node_map with a seventh type
node_map_with_cache ==
    {"api_gateway", "load_balancer", "service", "database", "queue", "monitoring", "cache"}

\* the keys of node_map in add_node
node_map == {"api_gateway", "load_balancer", "service", "database", "queue", "monitoring"}

\* str(uuid4()): the identifiers the store hands out, in the order it hands them out
CanvasIds == <<"c1", "c2", "c3", "c4", "c5", "c6">>

\* outcomes of the renderer when a diagram context is closed (Diagram.__exit__):
\* the image is written, the renderer raises, or it returns without an image
FlushOutcomes == {"written", "raises", "nofile"}

\* f"{diagram.filename}.png" == os.path.join(_TEMP_DIR, f"diagram_{canvas_id}.png")
DiagramPngs ==
    "c1" :> "diagram_c1.png" @@ "c2" :> "diagram_c2.png" @@ "c3" :> "diagram_c3.png"
    @@ "c4" :> "diagram_c4.png" @@ "c5" :> "diagram_c5.png" @@ "c6" :> "diagram_c6.png"
DiagramPng(c) == DiagramPngs[c]
\* os.path.join(_TEMP_DIR, f"{canvas_id}.png")
CanvasPngs ==
    "c1" :> "c1.png" @@ "c2" :> "c2.png" @@ "c3" :> "c3.png"
    @@ "c4" :> "c4.png" @@ "c5" :> "c5.png" @@ "c6" :> "c6.png"
CanvasPng(c) == CanvasPngs[c]

Store == [CANVASES |-> CANVASES, NODES |-> NODES, CLUSTERS |-> CLUSTERS,
          files |-> files, CREATED_FILES |-> CREATED_FILES]

EmptyStore == [CANVASES |-> EmptyDict, NODES |-> EmptyDict, CLUSTERS |-> EmptyDict,
               files |-> <<>>, CREATED_FILES |-> {}]

SetStore(s) ==
    /\ CANVASES' = s.CANVASES
    /\ NODES' = s.NODES
    /\ CLUSTERS' = s.CLUSTERS
    /\ files' = s.files
    /\ CREATED_FILES' = s.CREATED_FILES

\* os.path.exists(path)
Exists(fs, path) == \E k \in 1..Len(fs) : fs[k].path = path

RECURSIVE WithoutPath(_, _)
WithoutPath(fs, path) ==
    IF fs = <<>> THEN <<>>
    ELSE IF Head(fs).path = path THEN WithoutPath(Tail(fs), path)
    ELSE <<Head(fs)>> \o WithoutPath(Tail(fs), path)

\* the renderer writes the image of a diagram: the file becomes the newest one
WriteFile(fs, path, content) == Append(WithoutPath(fs, path), [path |-> path, content |-> content])

\* Diagram.__exit__: render what has been drawn so far into <filename>.png
Flush(s, c, outcome) ==
    IF outcome = "written"
    THEN [s EXCEPT !.files = WriteFile(s.files, DiagramPng(c),
                                      [canvas |-> c, nodes |-> s.CANVASES[c].nodes,
                                       edges |-> s.CANVASES[c].edges])]
    ELSE s

FlushError(outcome) == IF outcome = "raises" THEN RendererError ELSE OK

\* a create_canvas that hands out the same identifier every time
create_canvas_same_id(s, title) ==
    [err |-> OK, ret |-> CanvasIds[1],
     s |-> [s EXCEPT !.CANVASES = Put(s.CANVASES, CanvasIds[1],
                                      [name |-> title, nodes |-> EmptyBag, edges |-> EmptyBag]),
                     !.NODES = Put(s.NODES, CanvasIds[1], EmptyDict),
                     !.CLUSTERS = Put(s.CLUSTERS, CanvasIds[1], EmptyDict)]]

create_canvas(s, title) ==
    LET c == CanvasIds[Cardinality(DOMAIN s.CANVASES) + 1] IN
    [err |-> OK, ret |-> c,
     s |-> [s EXCEPT !.CANVASES = Put(s.CANVASES, c, [name |-> title, nodes |-> EmptyBag, edges |-> EmptyBag]),
                     !.NODES = Put(s.NODES, c, EmptyDict),
                     !.CLUSTERS = Put(s.CLUSTERS, c, EmptyDict)]]

create_cluster(s, c, cluster_id, cluster_name, outcome) ==
    IF c \notin DOMAIN s.CANVASES THEN [err |-> CanvasNotFound, ret |-> None, s |-> s]
    ELSE IF cluster_id \in DOMAIN s.CLUSTERS[c] THEN [err |-> ClusterExists, ret |-> None, s |-> s]
    ELSE LET s1 == [s EXCEPT !.CLUSTERS[c] = Put(s.CLUSTERS[c], cluster_id, cluster_name)] IN
         [err |-> FlushError(outcome), ret |-> None, s |-> Flush(s1, c, outcome)]

add_node(s, c, node_id, node_type, label, cluster_id, outcome) ==
    IF c \notin DOMAIN s.CANVASES THEN [err |-> CanvasNotFound, ret |-> None, s |-> s]
    ELSE IF node_id \in DOMAIN s.NODES[c] THEN [err |-> NodeExists, ret |-> None, s |-> s]
    ELSE IF Truthy(cluster_id) /\ cluster_id \notin DOMAIN s.CLUSTERS[c]
         THEN [err |-> ClusterNotFound, ret |-> None, s |-> s]
    ELSE IF node_type \notin node_map THEN [err |-> UnsupportedNodeType, ret |-> None, s |-> s]
    ELSE LET s1 == [s EXCEPT !.NODES[c] = Put(s.NODES[c], node_id, node_type),
                             !.CANVASES[c].nodes = @ (+) SetToBag({node_id})] IN
         [err |-> FlushError(outcome), ret |-> None, s |-> Flush(s1, c, outcome)]

add_edge(s, c, source_node_id, target_node_id) ==
    IF c \notin DOMAIN s.CANVASES THEN [err |-> CanvasNotFound, ret |-> None, s |-> s]
    ELSE IF source_node_id \notin DOMAIN s.NODES[c] THEN [err |-> SourceNotFound, ret |-> None, s |-> s]
    ELSE IF target_node_id \notin DOMAIN s.NODES[c] THEN [err |-> TargetNotFound, ret |-> None, s |-> s]
    ELSE [err |-> OK, ret |-> None,
          s |-> [s EXCEPT !.CANVASES[c].edges = @ (+) SetToBag({<<source_node_id, target_node_id>>})]]

\* track_created_file followed by return path
Tracked(s, path) == [err |-> OK, ret |-> path, s |-> [s EXCEPT !.CREATED_FILES = @ \cup {path}]]

\* render_diagram returning the expected path without looking for the file
render_diagram_unchecked(s, c, outcome) ==
    IF c \notin DOMAIN s.CANVASES THEN [err |-> CanvasNotFound, ret |-> None, s |-> s]
    ELSE IF outcome = "raises" THEN [err |-> RendererError, ret |-> None, s |-> s]
    ELSE Tracked(Flush(s, c, outcome), DiagramPng(c))

render_diagram(s, c, outcome) ==
    IF c \notin DOMAIN s.CANVASES THEN [err |-> CanvasNotFound, ret |-> None, s |-> s]
    ELSE IF outcome = "raises" THEN [err |-> RendererError, ret |-> None, s |-> s]
    ELSE LET s1 == Flush(s, c, outcome) IN
         IF Exists(s1.files, DiagramPng(c)) THEN Tracked(s1, DiagramPng(c))
         ELSE IF Exists(s1.files, CanvasPng(c)) THEN Tracked(s1, CanvasPng(c))
         ELSE IF s1.files # <<>> THEN Tracked(s1, s1.files[Len(s1.files)].path)
         ELSE [err |-> FileNotFound, ret |-> None, s |-> s1]

clear_canvas(s, c) ==
    IF c \notin DOMAIN s.CANVASES THEN [err |-> CanvasNotFound, ret |-> None, s |-> s]
    ELSE [err |-> OK, ret |-> None,
          s |-> [s EXCEPT !.NODES[c] = EmptyDict, !.CLUSTERS[c] = EmptyDict]]

\* type(node_obj).__name__.lower() of the icon class add_node builds for a type;
\* ALB and SQS are aliases of ElbApplicationLoadBalancer and SimpleQueueServiceSqs
class_name_lower ==
    "api_gateway" :> "apigateway" @@ "load_balancer" :> "elbapplicationloadbalancer"
    @@ "service" :> "ec2" @@ "database" :> "rds" @@ "queue" :> "simplequeueservicesqs"
    @@ "monitoring" :> "cloudwatch"

\* a list_canvas_nodes that answers for a canvas it does not know
list_canvas_nodes_lenient(s, c) == [err |-> OK, ret |-> EmptyDict, s |-> s]

list_canvas_nodes(s, c) ==
    IF c \notin DOMAIN s.CANVASES THEN [err |-> CanvasNotFound, ret |-> None, s |-> s]
    ELSE [err |-> OK,
          ret |-> [node_id \in DOMAIN s.NODES[c] |->
                      [node_id |-> node_id, node_type |-> class_name_lower[s.NODES[c][node_id]]]],
          s |-> s]

list_canvas_clusters(s, c) ==
    IF c \notin DOMAIN s.CANVASES THEN [err |-> CanvasNotFound, ret |-> None, s |-> s]
    ELSE [err |-> OK,
          ret |-> [cluster_id \in DOMAIN s.CLUSTERS[c] |->
                      [cluster_id |-> cluster_id, cluster_name |-> s.CLUSTERS[c][cluster_id]]],
          s |-> s]

get_canvas_info(s, c) ==
    IF c \notin DOMAIN s.CANVASES THEN [err |-> CanvasNotFound, ret |-> None, s |-> s]
    ELSE [err |-> OK,
          ret |-> [canvas_id |-> c, title |-> s.CANVASES[c].name,
                   node_count |-> Cardinality(DOMAIN s.NODES[c]),
                   cluster_count |-> Cardinality(DOMAIN s.CLUSTERS[c])],
          s |-> s]

(***************************************************************************)
(* Python strings whose characters matter are sequences of characters      *)
(***************************************************************************)
UpperCase == <<"A", "B", "C", "D", "E", "F", "G", "H", "I", "J", "K", "L", "M",
               "N", "O", "P", "Q", "R", "S", "T", "U", "V", "W", "X", "Y", "Z">>
LowerCase == <<"a", "b", "c", "d", "e", "f", "g", "h", "i", "j", "k", "l", "m",
               "n", "o", "p", "q", "r", "s", "t", "u", "v", "w", "x", "y", "z">>

LowerChar(ch) ==
    IF \E k \in 1..Len(UpperCase) : UpperCase[k] = ch
    THEN LowerCase[CHOOSE k \in 1..Len(UpperCase) : UpperCase[k] = ch]
    ELSE ch

\* str.lower()
Lower(str) == [k \in 1..Len(str) |-> LowerChar(str[k])]

UpperChar(ch) ==
    IF \E k \in 1..Len(LowerCase) : LowerCase[k] = ch
    THEN UpperCase[CHOOSE k \in 1..Len(LowerCase) : LowerCase[k] = ch]
    ELSE ch

\* str.upper()
Upper(str) == [k \in 1..Len(str) |-> UpperChar(str[k])]

\* the characters str.strip() removes
Whitespace == {" ", "\n", "\t"}

RECURSIVE LStrip(_)
LStrip(str) == IF str # <<>> /\ Head(str) \in Whitespace THEN LStrip(Tail(str)) ELSE str

RECURSIVE RStrip(_)
RStrip(str) ==
    IF str # <<>> /\ str[Len(str)] \in Whitespace
    THEN RStrip(SubSeq(str, 1, Len(str) - 1)) ELSE str

\* str.strip()
Strip(str) == RStrip(LStrip(str))

\* word in str
Contains(str, word) ==
    \E k \in 0..(Len(str) - Len(word)) : SubSeq(str, k + 1, k + Len(word)) = word

(***************************************************************************)
(* DiagramAgent: the policy helpers (agents/diagram_agent.py)              *)
(***************************************************************************)
\* the synonyms table of _extract_allowed_components
synonyms ==
    "api_gateway" :> {<<"a", "p", "i", " ", "g", "a", "t", "e", "w", "a", "y">>,
                       <<"g", "a", "t", "e", "w", "a", "y">>}
    @@
    "load_balancer" :> {<<"l", "o", "a", "d", " ", "b", "a", "l", "a", "n", "c", "e", "r">>,
                         <<"a", "l", "b">>,
                         <<"a", "p", "p", "l", "i", "c", "a", "t", "i", "o", "n", " ", "l", "o", "a", "d", " ", "b", "a", "l", "a", "n", "c", "e", "r">>,
                         <<"n", "l", "b">>}
    @@
    "service" :> {<<"s", "e", "r", "v", "i", "c", "e">>,
                   <<"m", "i", "c", "r", "o", "s", "e", "r", "v", "i", "c", "e">>,
                   <<"s", "e", "r", "v", "e", "r">>,
                   <<"e", "c", "2">>,
                   <<"e", "c", "s">>,
                   <<"l", "a", "m", "b", "d", "a">>}
    @@
    "database" :> {<<"d", "a", "t", "a", "b", "a", "s", "e">>,
                    <<"r", "d", "s">>,
                    <<"a", "u", "r", "o", "r", "a">>,
                    <<"d", "b">>,
                    <<"d", "y", "n", "a", "m", "o", "d", "b">>}
    @@
    "queue" :> {<<"q", "u", "e", "u", "e">>,
                 <<"s", "q", "s">>,
                 <<"s", "n", "s">>,
                 <<"k", "i", "n", "e", "s", "i", "s">>,
                 <<"e", "v", "e", "n", "t", "b", "r", "i", "d", "g", "e">>}
    @@
    "monitoring" :> {<<"m", "o", "n", "i", "t", "o", "r", "i", "n", "g">>,
                      <<"c", "l", "o", "u", "d", "w", "a", "t", "c", "h">>,
                      <<"l", "o", "g", "g", "i", "n", "g">>,
                      <<"o", "b", "s", "e", "r", "v", "a", "b", "i", "l", "i", "t", "y">>,
                      <<"x", "r", "a", "y">>,
                      <<"c", "l", "o", "u", "d", "t", "r", "a", "i", "l">>}

\* defaults without monitoring
default_components_no_monitoring == {"api_gateway", "service", "database", "queue", "load_balancer"}

default_components == {"api_gateway", "service", "database", "queue", "monitoring", "load_balancer"}

extract_allowed_components(descr) ==
    LET description_lower == Lower(descr) IN
    {component \in DOMAIN synonyms :
        \E word \in synonyms[component] : Contains(description_lower, word)}
    \cup default_components

\* the keyword list of the monitoring gate in generate_diagram
monitoring_keywords ==
    {<<"m", "o", "n", "i", "t", "o", "r", "i", "n", "g">>,
     <<"c", "l", "o", "u", "d", "w", "a", "t", "c", "h">>,
     <<"o", "b", "s", "e", "r", "v", "a", "b", "i", "l", "i", "t", "y">>,
     <<"x", "r", "a", "y">>,
     <<"l", "o", "g", "g", "i", "n", "g">>}

monitoring_requested_for(descr) ==
    \E word \in monitoring_keywords : Contains(Lower(descr), word)

standardization_map ==
    <<"m", "i", "c", "r", "o", "s", "e", "r", "v", "i", "c", "e", "s">> :> <<"M", "i", "c", "r", "o", "s", "e", "r", "v", "i", "c", "e", "s">>
    @@
    <<"s", "e", "r", "v", "i", "c", "e", "s">> :> <<"M", "i", "c", "r", "o", "s", "e", "r", "v", "i", "c", "e", "s">>
    @@
    <<"w", "e", "b", " ", "t", "i", "e", "r">> :> <<"W", "e", "b", " ", "T", "i", "e", "r">>
    @@
    <<"w", "e", "b">> :> <<"W", "e", "b", " ", "T", "i", "e", "r">>
    @@
    <<"r", "o", "u", "t", "i", "n", "g">> :> <<"R", "o", "u", "t", "i", "n", "g">>
    @@
    <<"s", "h", "a", "r", "e", "d", " ", "i", "n", "f", "r", "a">> :> <<"S", "h", "a", "r", "e", "d", " ", "I", "n", "f", "r", "a">>
    @@
    <<"s", "h", "a", "r", "e", "d", " ", "i", "n", "f", "r", "a", "s", "t", "r", "u", "c", "t", "u", "r", "e">> :> <<"S", "h", "a", "r", "e", "d", " ", "I", "n", "f", "r", "a">>
    @@
    <<"i", "n", "f", "r", "a", "s", "t", "r", "u", "c", "t", "u", "r", "e">> :> <<"S", "h", "a", "r", "e", "d", " ", "I", "n", "f", "r", "a">>
    @@
    <<"i", "n", "f", "r", "a">> :> <<"S", "h", "a", "r", "e", "d", " ", "I", "n", "f", "r", "a">>
    @@
    <<"d", "a", "t", "a">> :> <<"D", "a", "t", "a", " ", "L", "a", "y", "e", "r">>
    @@
    <<"d", "a", "t", "a", " ", "l", "a", "y", "e", "r">> :> <<"D", "a", "t", "a", " ", "L", "a", "y", "e", "r">>
    @@
    <<"c", "a", "c", "h", "e">> :> <<"C", "a", "c", "h", "e", " ", "L", "a", "y", "e", "r">>
    @@
    <<"c", "a", "c", "h", "e", " ", "l", "a", "y", "e", "r">> :> <<"C", "a", "c", "h", "e", " ", "L", "a", "y", "e", "r">>

\* a lookup that lower-cases the name but keeps its surrounding white space
standardize_cluster_name_unstripped(cluster_name) ==
    Get(standardization_map, Lower(cluster_name), cluster_name)

standardize_cluster_name(cluster_name) ==
    LET normalized == Strip(Lower(cluster_name)) IN
    Get(standardization_map, normalized, cluster_name)

\* the keys of self.available_tools
available_tools == {"create_canvas", "create_cluster", "add_node", "add_edge", "render_diagram"}

\* a table that forgets the target of an edge
required_params_short ==
    "create_canvas" :> {"title"}
    @@ "create_cluster" :> {"canvas_id", "cluster_id", "cluster_name"}
    @@ "add_node" :> {"canvas_id", "node_id", "node_type"}
    @@ "add_edge" :> {"canvas_id", "source_node_id"}
    @@ "render_diagram" :> {"canvas_id"}

required_params ==
    "create_canvas" :> {"title"}
    @@ "create_cluster" :> {"canvas_id", "cluster_id", "cluster_name"}
    @@ "add_node" :> {"canvas_id", "node_id", "node_type"}
    @@ "add_edge" :> {"canvas_id", "source_node_id", "target_node_id"}
    @@ "render_diagram" :> {"canvas_id"}

\* A JSON value of the plan: isDict tells a JSON object from any other value;
\* an object is a dict d; its "args" value is again a JSON value [isDict, kv].
EmptyArgs == [isDict |-> TRUE, kv |-> EmptyDict]

validate_tool_call(tool_call) ==
    IF ~tool_call.isDict THEN FALSE
    ELSE LET tool_name == Get(tool_call.d, "name", None) IN
         IF ~Truthy(tool_name) \/ tool_name \notin available_tools THEN FALSE
         ELSE LET args == Get(tool_call.d, "args", EmptyArgs) IN
              IF ~args.isDict THEN FALSE
              ELSE \A param \in Get(required_params, tool_name, {}) : param \in DOMAIN args.kv

\* _check_duplicate_node: the stub always reports "not a duplicate"
check_duplicate_node(c, node_id) == FALSE

(***************************************************************************)
(* DiagramAgent._enforce_shared_edges                                      *)
(***************************************************************************)
RECURSIVE SeqOf(_)
\* the elements of a finite set, one after the other
SeqOf(S) == IF S = {} THEN <<>> ELSE LET x == CHOOSE y \in S : TRUE IN <<x>> \o SeqOf(S \ {x})

service_nodes(nodes) == {n \in DOMAIN nodes : nodes[n] = "service"}
shared_nodes(nodes) == {n \in DOMAIN nodes : nodes[n] \in {"database", "queue", "monitoring"}}
routing_nodes(nodes) == {n \in DOMAIN nodes : nodes[n] \in {"api_gateway", "load_balancer"}}
monitoring_nodes(nodes) == {n \in DOMAIN nodes : nodes[n] = "monitoring"}

\* for route in routing_nodes: for svc in service_nodes
routing_pairs(nodes) == routing_nodes(nodes) \X service_nodes(nodes)
\* for svc in service_nodes: for shared in shared_nodes
shared_pairs(nodes) == service_nodes(nodes) \X shared_nodes(nodes)
\* a third loop that only walks the service nodes
monitoring_pairs_services_only(nodes) == service_nodes(nodes) \X monitoring_nodes(nodes)

\* for mon in monitoring_nodes: for node in service_nodes + routing_nodes
monitoring_pairs(nodes) ==
    {<<node, mon>> : node \in service_nodes(nodes) \cup routing_nodes(nodes),
                     mon \in monitoring_nodes(nodes)}

EnforceCall(c, pair, r) ==
    [phase |-> "enforce", op |-> "add_edge", canvas |-> c, a |-> pair[1], b |-> pair[2],
     err |-> r.err, ret |-> r.ret]

RECURSIVE EnsureEdges_recording(_, _, _)
\* a loop that records the pair whether or not add_edge raised
EnsureEdges_recording(st, c, pairs) ==
    IF pairs = <<>> THEN st
    ELSE LET pair == Head(pairs) IN
         IF pair \in st.existing_edges THEN EnsureEdges_recording(st, c, Tail(pairs))
         ELSE LET r == add_edge(st.s, c, pair[1], pair[2]) IN
              EnsureEdges_recording([s |-> r.s, existing_edges |-> st.existing_edges \cup {pair},
                                     calls |-> Append(st.calls, EnforceCall(c, pair, r))],
                                    c, Tail(pairs))

RECURSIVE EnsureEdges(_, _, _)
\* one of the three loops: skip a pair already in existing_edges, else call
\* add_edge and record the pair; a failing add_edge is logged and skipped
EnsureEdges(st, c, pairs) ==
    IF pairs = <<>> THEN st
    ELSE LET pair == Head(pairs) IN
         IF pair \in st.existing_edges THEN EnsureEdges(st, c, Tail(pairs))
         ELSE LET r == add_edge(st.s, c, pair[1], pair[2]) IN
              IF r.err = OK
              THEN EnsureEdges([s |-> r.s, existing_edges |-> st.existing_edges \cup {pair},
                                calls |-> Append(st.calls, EnforceCall(c, pair, r))],
                               c, Tail(pairs))
              ELSE EnsureEdges([st EXCEPT !.calls = Append(@, EnforceCall(c, pair, r))],
                               c, Tail(pairs))

enforce_shared_edges(s, c, nodes, edges) ==
    LET st0 == [s |-> s, existing_edges |-> edges, calls |-> <<>>] IN
    IF DOMAIN nodes = {} THEN st0
    ELSE LET st1 == EnsureEdges(st0, c, SeqOf(routing_pairs(nodes)))
             st2 == EnsureEdges(st1, c, SeqOf(shared_pairs(nodes)))
         IN EnsureEdges(st2, c, SeqOf(monitoring_pairs(nodes)))

\* "existing_edges = existing_edges or set()": an empty set passed by the caller is
\* replaced by a fresh one, so the caller's set only sees the additions when it was
\* not empty
CallerEdgesAfter(edges, st) == IF edges = {} THEN edges ELSE st.existing_edges

(***************************************************************************)
(* The plans a planner may return                                          *)
(***************************************************************************)
Placeholder == "CANVAS_ID"

Call(name, kv) == [isDict |-> TRUE, d |-> [name |-> name, args |-> [isDict |-> TRUE, kv |-> kv]]]

CreateCanvas == Call("create_canvas", [title |-> "Web App"])
RenderDiagram == Call("render_diagram", [canvas_id |-> Placeholder])
AddNode(n, t) == Call("add_node", [canvas_id |-> Placeholder, node_id |-> n, node_type |-> t])
AddEdge(a, b) == Call("add_edge", [canvas_id |-> Placeholder, source_node_id |-> a, target_node_id |-> b])

\* plan elements the validator rejects
NotADict == [isDict |-> FALSE, d |-> EmptyDict]
MissingName == [isDict |-> TRUE, d |-> [args |-> [isDict |-> TRUE, kv |-> [title |-> "Missing name"]]]]
NullName == [isDict |-> TRUE, d |-> [name |-> None, args |-> [isDict |-> TRUE, kv |-> [title |-> "Web App"]]]]
UnknownName == Call("invalid_tool", EmptyDict)
ArgsNotDict == [isDict |-> TRUE, d |-> [name |-> "render_diagram", args |-> [isDict |-> FALSE, kv |-> EmptyDict]]]
MissingArg == Call("add_edge", [canvas_id |-> Placeholder, source_node_id |-> "a"])

Catalog ==
    { CreateCanvas, RenderDiagram,
      AddNode("a", "service"), AddNode("a", "monitoring"), AddNode("b", "database"),
      AddNode("b", "service"), AddNode("", "service"), AddNode("a", "cache"),
      Call("add_node", [canvas_id |-> Placeholder, node_id |-> "b", node_type |-> "database",
                        cluster_id |-> "k"]),
      Call("add_node", [canvas_id |-> "canvas-1", node_id |-> "a", node_type |-> "service"]),
      AddEdge("a", "b"), AddEdge("a", "a"),
      Call("create_cluster", [canvas_id |-> Placeholder, cluster_id |-> "k",
                              cluster_name |-> <<" ", "S", "e", "r", "v", "i", "c", "e", "s">>]),
      NotADict, MissingName, NullName, UnknownName, ArgsNotDict, MissingArg }

\* a plan that renders two connected kinds of node itself, before the post-processing
RenderedPlan ==
    <<CreateCanvas, AddNode("a", "service"), AddNode("b", "database"), RenderDiagram>>

\* a plan that names the same edge twice
RepeatedEdgePlan ==
    <<CreateCanvas, AddNode("a", "service"), AddNode("b", "database"),
      AddEdge("a", "b"), AddEdge("a", "b")>>

Plans == UNION {[1..n -> Catalog] : n \in 0..MaxPlan} \cup {RenderedPlan, RepeatedEdgePlan}

\* "simple service with a database"
SimpleDescription == 
    <<"s", "i", "m", "p", "l", "e", " ", "s", "e", "r", "v", "i", "c", "e", " ", "w", "i", "t", "h", " ", "a", " ", "d", "a", "t", "a", "b", "a", "s", "e">>
\* "Service with XRay"
XRayDescription == 
    <<"S", "e", "r", "v", "i", "c", "e", " ", "w", "i", "t", "h", " ", "X", "R", "a", "y">>

GenDescriptions == {SimpleDescription, XRayDescription}

(***************************************************************************)
(* A client of the store calling the functions of mcp_tools.py directly    *)
(***************************************************************************)
StoreCanvasArgs == DOMAIN CANVASES \cup {"CANVAS_ID"}
StoreNodeIds == {"a", "b"}
StoreNodeTypes == {"service", "database", "cache"}
StoreClusterArgs == {None, "k"}

Reply(op, c, a, b, r) ==
    [op |-> op, canvas |-> c, a |-> a, b |-> b, cluster |-> None, err |-> r.err, ret |-> r.ret]

StoreStep(op, c, a, b, r) ==
    /\ ops < MaxOps
    /\ ops' = ops + 1
    /\ last' = Reply(op, c, a, b, r)
    /\ SetStore(r.s)
    /\ UNCHANGED <<genVars, probe, gemini, suspended, http>>

StoreCreateCanvas ==
    /\ Cardinality(DOMAIN CANVASES) < 2
    /\ StoreStep("create_canvas", None, None, None, create_canvas(Store, "Architecture Diagram"))

StoreCreateCluster ==
    \E c \in StoreCanvasArgs, o \in FlushOutcomes :
        StoreStep("create_cluster", c, "k", None, create_cluster(Store, c, "k", "Web Tier", o))

StoreAddNode ==
    \E c \in StoreCanvasArgs, n \in StoreNodeIds, t \in StoreNodeTypes,
       k \in StoreClusterArgs, o \in FlushOutcomes :
        LET r == add_node(Store, c, n, t, None, k, o) IN
        /\ ops < MaxOps
        /\ ops' = ops + 1
        /\ last' = [Reply("add_node", c, n, t, r) EXCEPT !.cluster = k]
        /\ SetStore(r.s)
        /\ UNCHANGED <<genVars, probe, gemini, suspended, http>>

StoreAddEdge ==
    \E c \in StoreCanvasArgs, a \in StoreNodeIds, b \in StoreNodeIds :
        StoreStep("add_edge", c, a, b, add_edge(Store, c, a, b))

StoreRenderDiagram ==
    \E c \in StoreCanvasArgs, o \in FlushOutcomes :
        StoreStep("render_diagram", c, None, None, render_diagram(Store, c, o))

StoreClearCanvas ==
    \E c \in StoreCanvasArgs :
        StoreStep("clear_canvas", c, None, None, clear_canvas(Store, c))

StoreListCanvasNodes ==
    \E c \in StoreCanvasArgs :
        StoreStep("list_canvas_nodes", c, None, None, list_canvas_nodes(Store, c))

StoreListCanvasClusters ==
    \E c \in StoreCanvasArgs :
        StoreStep("list_canvas_clusters", c, None, None, list_canvas_clusters(Store, c))

StoreGetCanvasInfo ==
    \E c \in StoreCanvasArgs :
        StoreStep("get_canvas_info", c, None, None, get_canvas_info(Store, c))

NoCall == [op |-> None, canvas |-> None, a |-> None, b |-> None, cluster |-> None,
           err |-> OK, ret |-> None]
NoResponse == [returned |-> FALSE, success |-> FALSE, image_path |-> None,
               error |-> [kind |-> None, detail |-> None], reasoning |-> None]
NoProbe == [fn |-> None]
\* no call of the client has been made
NoGemini == [pc |-> "Idle", attempt |-> 0, attempts |-> <<>>, sleeps |-> <<>>,
             response |-> <<>>, result |-> None,
             error |-> [type |-> None, text |-> None]]
\* no second generate_diagram call
NoFrame == [pc |-> None]
\* the route module before any request
NoHttp == [agent_instance |-> None]

StoreEmpty ==
    /\ CANVASES = EmptyDict
    /\ NODES = EmptyDict
    /\ CLUSTERS = EmptyDict
    /\ files = <<>>
    /\ CREATED_FILES = {}

GenIdle ==
    /\ pc = "Idle"
    /\ description = <<>>
    /\ monitoring_requested = FALSE
    /\ allowed_components = {}
    /\ reasoning = None
    /\ tool_calls = <<>>
    /\ idx = 1
    /\ canvas_id = None
    /\ image_path = None
    /\ created_nodes = EmptyDict
    /\ existing_edges = {}
    /\ response = NoResponse
    /\ calls = <<>>

InitStore ==
    /\ StoreEmpty
    /\ GenIdle
    /\ ops = 0
    /\ last = NoCall
    /\ gemini = NoGemini
    /\ suspended = NoFrame
    /\ http = NoHttp
    /\ probe = NoProbe

NextStore ==
    \/ StoreCreateCanvas
    \/ StoreCreateCluster
    \/ StoreAddNode
    \/ StoreAddEdge
    \/ StoreRenderDiagram
    \/ StoreClearCanvas
    \/ StoreListCanvasNodes
    \/ StoreListCanvasClusters
    \/ StoreGetCanvasInfo

SpecStore == InitStore /\ [][NextStore]_vars

(***************************************************************************)
(* A client of the MCP server (tools/mcp_server.py): each tool checks its   *)
(* arguments against the declared types and calls the function of          *)
(* mcp_tools.py of the same name                                           *)
(***************************************************************************)
InvalidArguments == "Input validation error"

\* the Literal[...] of the node_type parameter of the add_node tool
server_node_types ==
    {"compute_ec2", "compute_ecs", "compute_lambda", "compute_fargate",
     "database_rds", "database_dynamodb", "database_elasticache", "database_aurora",
     "network_alb", "network_nlb", "network_cloudfront", "network_route53",
     "network_api_gateway", "network_api_gateway_v2", "storage_s3", "storage_efs",
     "messaging_sqs", "messaging_sns", "messaging_eventbridge", "messaging_kinesis",
     "monitoring_cloudwatch", "monitoring_xray", "monitoring_cloudtrail", "security_iam",
     "security_cognito", "security_secrets_manager", "container_eks", "container_ecr",
     "integration_step_functions", "integration_app_sync"}

\* the add_node tool: a node_type outside the Literal is refused by the server,
\* any other call is handed to mcp_tools.add_node
server_add_node(s, c, node_id, node_type, label, cluster_id, outcome) ==
    IF node_type \notin server_node_types
    THEN [err |-> InvalidArguments, ret |-> None, s |-> s]
    ELSE add_node(s, c, node_id, node_type, label, cluster_id, outcome)

\* the create_canvas tool takes no argument: the store's default title is used
ServerCreateCanvas ==
    /\ Cardinality(DOMAIN CANVASES) < 2
    /\ StoreStep("create_canvas", None, None, None, create_canvas(Store, "Architecture Diagram"))

ServerAddNode ==
    \E c \in StoreCanvasArgs, n \in StoreNodeIds, t \in server_node_types \cup node_map,
       o \in FlushOutcomes :
        StoreStep("add_node", c, n, t, server_add_node(Store, c, n, t, None, None, o))

NextServer ==
    \/ ServerCreateCanvas
    \/ ServerAddNode

SpecServer == InitStore /\ [][NextServer]_vars

(***************************************************************************)
(* GeminiClient (utils/gemini_client.py)                                   *)
(***************************************************************************)
\* a client that tries four times
max_retries_four == 3 + 1

\* self.max_retries of GeminiClient.__init__
max_retries == 3
\* a client that retries at once
retry_delay_none == 1 - 1

\* self.retry_delay
retry_delay == 1

\* A response text is a sequence of pieces: the fence that opens a JSON block,
\* a plain fence, the braces, the inside of a JSON object, text without braces
\* or fences, and white space.
\* the fence is written <fence> here: three backquotes in the program
FenceJson == "<fence>json"
Fence == "<fence>"
JsonBody == "reasoning: ..., tool_calls: [...]"
Prose == "Here is the JSON"

PlainJson == <<"{", JsonBody, "}">>
FencedJson == <<Prose, "\n", FenceJson, "\n", "{", JsonBody, "}", "\n", Fence>>
ExplainedJson == <<Prose, " ", "{", JsonBody, "}", " ", Prose>>
PlainFences == <<Fence, "\n", "{", "}", "\n", Fence>>
InvalidJsonContent == <<Prose>>
OpenFenceJson == <<FenceJson, "\n", "{", JsonBody, "}">>
JsonThenProse == <<"{", JsonBody, "}", "\n", Prose>>
EmptyText == <<>>

\* the texts the model may answer with
ModelTexts == {PlainJson, FencedJson, ExplainedJson, PlainFences, InvalidJsonContent,
               OpenFenceJson, JsonThenProse, EmptyText}

\* the exceptions of a call, with str(e)
TimeoutError == [type |-> "TimeoutError", text |-> ""]
ApiError == [type |-> "Exception", text |-> "API Error"]
InvalidJson == [type |-> "ValueError", text |-> "Invalid JSON response from Gemini"]
NoException == [type |-> None, text |-> None]

\* what one await of generate_content_async under wait_for can end with
ModelOutcomes ==
    {[kind |-> "timeout", text |-> <<>>, error |-> TimeoutError],
     [kind |-> "error", text |-> <<>>, error |-> ApiError]}
    \cup {[kind |-> "text", text |-> t, error |-> NoException] : t \in ModelTexts}

\* str.find(piece, start) over positions 1..Len, 0 when there is none; a search
\* for "```" also stops at "```json"
FindFrom(str, pieces, start) ==
    IF \E k \in start..Len(str) : str[k] \in pieces
    THEN CHOOSE k \in start..Len(str) :
            str[k] \in pieces /\ \A j \in start..(k - 1) : str[j] \notin pieces
    ELSE 0

\* str.rfind(piece)
RFind(str, pieces) ==
    IF \E k \in 1..Len(str) : str[k] \in pieces
    THEN CHOOSE k \in 1..Len(str) :
            str[k] \in pieces /\ \A j \in (k + 1)..Len(str) : str[j] \notin pieces
    ELSE 0

RECURSIVE RemoveFences(_)
\* str.replace("```", "")
RemoveFences(str) ==
    IF str = <<>> THEN <<>>
    ELSE IF Head(str) = Fence THEN RemoveFences(Tail(str))
    ELSE IF Head(str) = FenceJson THEN <<"json">> \o RemoveFences(Tail(str))
    ELSE <<Head(str)>> \o RemoveFences(Tail(str))

\* the text between the opening "```json" and the next fence; with no next fence
\* find returns -1 and the slice response[json_start:-1] loses the last character
FencedContent(text) ==
    LET json_start == FindFrom(text, {FenceJson}, 1) + 1
        json_end == FindFrom(text, {Fence, FenceJson}, json_start)
    IN IF json_end # 0 THEN SubSeq(text, json_start, json_end - 1)
       ELSE SubSeq(text, json_start, Len(text) - 1)

\* "If the text starts with explanation, try to find JSON block"
BraceBlock(json_content) ==
    IF json_content # <<>> /\ Head(json_content) = "{" THEN json_content
    ELSE LET start_idx == FindFrom(json_content, {"{"}, 1)
             end_idx == RFind(json_content, {"}"})
         IN IF start_idx # 0 /\ end_idx # 0 /\ end_idx > start_idx
            THEN SubSeq(json_content, start_idx, end_idx)
            ELSE json_content

\* the string generate_json_text hands to json.loads
JsonContent(text) ==
    LET found == IF FindFrom(text, {FenceJson}, 1) # 0
                 THEN Strip(FencedContent(text))
                 ELSE Strip(text)
    IN BraceBlock(Strip(RemoveFences(found)))

\* json.loads: white space between the pieces of a document is ignored; an object
\* is returned as a dict, anything else here is a JSONDecodeError
JsonLoads(json_content) ==
    LET doc == SelectSeq(json_content, LAMBDA piece : piece \notin Whitespace) IN
    IF doc = <<"{", JsonBody, "}">> THEN [ok |-> TRUE, value |-> "plan"]
    ELSE IF doc = <<"{", "}">> THEN [ok |-> TRUE, value |-> "{}"]
    ELSE [ok |-> FALSE, value |-> None]

\* json.loads(json_content) for each text the model may answer with
ParsedText == [text \in ModelTexts |-> JsonLoads(JsonContent(text))]

\* the part of the state a GeminiClient step leaves alone
GeminiFrame ==
    UNCHANGED <<CANVASES, NODES, CLUSTERS, files, CREATED_FILES, ops, last, pc, description,
                monitoring_requested, allowed_components, reasoning, tool_calls, idx,
                canvas_id, image_path, created_nodes, existing_edges, response, calls, probe,
                suspended, http>>

\* generate_diagram awaits generate_json_response, which awaits generate_content:
\* the retry loop starts with attempt 0
GenerateJsonResponse ==
    /\ pc = "PromptBuilt"
    /\ gemini.pc = "Idle"
    /\ gemini' = [gemini EXCEPT !.pc = "Attempt", !.attempt = 0]
    /\ GeminiFrame

\* one pass of `for attempt in range(self.max_retries)`: the text is returned, or
\* the failure is followed by a sleep, or by `raise` on the last attempt
GenerateContentAttempt ==
    /\ gemini.pc = "Attempt"
    /\ gemini.attempt < max_retries
    /\ \E outcome \in ModelOutcomes :
          gemini' =
             IF outcome.kind = "text"
             THEN [gemini EXCEPT !.pc = "Parse", !.response = outcome.text,
                                 !.attempts = Append(@, outcome.kind)]
             ELSE IF gemini.attempt < max_retries - 1
             THEN [gemini EXCEPT !.pc = "Sleep", !.attempts = Append(@, outcome.kind),
                                 !.sleeps = Append(@, retry_delay * (gemini.attempt + 1))]
             ELSE [gemini EXCEPT !.pc = "Raised", !.attempts = Append(@, outcome.kind),
                                 !.error = outcome.error]
    /\ GeminiFrame

\* asyncio.sleep returns and the loop goes to the next attempt
GenerateContentSleep ==
    /\ gemini.pc = "Sleep"
    /\ gemini' = [gemini EXCEPT !.pc = "Attempt", !.attempt = @ + 1]
    /\ GeminiFrame

\* generate_json_response with the text of generate_content: the JSON is cut out
\* and parsed; a JSONDecodeError is raised as ValueError. A return ends the call:
\* only the returned value is left of it
ParseJsonResponse ==
    /\ gemini.pc = "Parse"
    /\ LET parsed == ParsedText[gemini.response] IN
       gemini' = IF parsed.ok
                 THEN [NoGemini EXCEPT !.pc = "Returned", !.result = parsed.value]
                 ELSE [gemini EXCEPT !.pc = "Raised", !.error = InvalidJson]
    /\ GeminiFrame

(***************************************************************************)
(* DiagramAgent._call_mcp_tool and DiagramAgent.generate_diagram           *)
(***************************************************************************)
PlanPhase == "plan"

\* _call_mcp_tool: route to the mcp_tools function; any exception becomes {"error": ...}
call_mcp_tool(s, tool_name, args, outcome) ==
    CASE tool_name = "create_canvas" -> create_canvas(s, args["title"])
      [] tool_name = "create_cluster" ->
            create_cluster(s, args["canvas_id"], args["cluster_id"], args["cluster_name"], outcome)
      [] tool_name = "add_node" ->
            add_node(s, args["canvas_id"], args["node_id"], args["node_type"],
                     Get(args, "label", None), Get(args, "cluster_id", None), outcome)
      [] tool_name = "add_edge" ->
            add_edge(s, args["canvas_id"], args["source_node_id"], args["target_node_id"])
      [] tool_name = "render_diagram" -> render_diagram(s, args["canvas_id"], outcome)
      [] OTHER -> [err |-> "Unknown tool", ret |-> None, s |-> s]

\* what the history remembers of a call issued to mcp_tools
Issued(phase, tool_name, args, r) ==
    [phase |-> phase, op |-> tool_name,
     canvas |-> Get(args, "canvas_id", None),
     a |-> IF tool_name = "add_node" THEN args["node_id"]
           ELSE IF tool_name = "add_edge" THEN args["source_node_id"]
           ELSE IF tool_name = "create_cluster" THEN args["cluster_id"] ELSE None,
     b |-> IF tool_name = "add_node" THEN args["node_type"]
           ELSE IF tool_name = "add_edge" THEN args["target_node_id"] ELSE None,
     err |-> r.err, ret |-> r.ret]

NoError == [kind |-> None, detail |-> None]
ErrorReasoning == "Error occurred during diagram generation"

Failure(kind, detail, why) ==
    [returned |-> TRUE, success |-> FALSE, image_path |-> None,
     error |-> [kind |-> kind, detail |-> detail], reasoning |-> why]

\* DiagramResponse(success=True, image_path=..., reasoning=..., tool_calls=[...]):
\* the model declares success, canvas_id, image_path, error and reasoning, and a
\* keyword that is not a declared field is not kept
Success(path, why) ==
    [returned |-> TRUE, success |-> TRUE, image_path |-> path, error |-> NoError,
     reasoning |-> why]

\* a loop body that leaves the placeholder in the arguments
SubstitutePlaceholder_never(args, c) == args

\* "Replace CANVAS_ID placeholder with actual canvas ID"
SubstitutePlaceholder(args, c) ==
    IF Truthy(c) /\ "canvas_id" \in DOMAIN args /\ args["canvas_id"] = Placeholder
    THEN Put(args, "canvas_id", c)
    ELSE args

\* "Standardize cluster names"
StandardizeArgs(tool_name, args) ==
    IF tool_name = "create_cluster" /\ "cluster_name" \in DOMAIN args
    THEN Put(args, "cluster_name", standardize_cluster_name(args["cluster_name"]))
    ELSE args

\* the args dict of the current plan element after the two rewrites of the loop body
PreparedArgs(tool_call, c) ==
    StandardizeArgs(tool_call.d["name"], SubstitutePlaceholder(tool_call.d["args"].kv, c))

\* a monitoring gate that lets every node through
MonitoringGate_open(node_type, requested) == FALSE

\* "Do not add monitoring nodes unless explicitly requested"
MonitoringGate(node_type, requested) == node_type = "monitoring" /\ ~requested

\* an allowed-type gate that lets every node through
AllowedGate_open(node_type, allowed) == FALSE

\* "Check if node type is allowed"
AllowedGate(node_type, allowed) == node_type \notin allowed

\* the three `continue` statements of the add_node branch
NodeSkipped(tool_name, args, c, requested, allowed) ==
    /\ tool_name = "add_node"
    /\ \/ MonitoringGate(Get(args, "node_type", ""), requested)
       \/ AllowedGate(Get(args, "node_type", ""), allowed)
       \/ (Truthy(c) /\ check_duplicate_node(c, Get(args, "node_id", "")))

\* an edge filter that lets every edge through
EdgeSkipped_never(tool_name, args, nodes) == FALSE

\* "Ensure both nodes were created to prevent invalid edges"
EdgeSkipped(tool_name, args, nodes) ==
    /\ tool_name = "add_edge"
    /\ \/ Get(args, "source_node_id", "") \notin DOMAIN nodes
       \/ Get(args, "target_node_id", "") \notin DOMAIN nodes

\* a plan loop that never looks at the error of a tool result
ToolFailed_ignored(result) == FALSE

\* `if "error" in result`
ToolFailed(result) == result.err # OK

\* ToolCall(name=call.get("name", ""), args=call.get("args", {})) can be built:
\* call is a dict, the name is a str and the args are a dict
ToolCallBuilds(call) ==
    /\ call.isDict
    /\ Get(call.d, "name", "") # None
    /\ Get(call.d, "args", EmptyArgs).isDict

InLoop == pc = "Executing" /\ idx <= Len(tool_calls)
LoopDone == pc = "Executing" /\ idx > Len(tool_calls)

\* generate_diagram is entered: the allowed set and the monitoring gate are derived
\* from the description and the prompt is built
BuildPrompt ==
    /\ pc = "Idle"
    /\ \E d \in GenDescriptions :
        /\ description' = d
        /\ allowed_components' = extract_allowed_components(d)
        /\ monitoring_requested' = monitoring_requested_for(d)
    /\ pc' = "PromptBuilt"
    /\ UNCHANGED <<CANVASES, NODES, CLUSTERS, files, CREATED_FILES, ops, last, reasoning,
                   tool_calls, idx, canvas_id, image_path, created_nodes, existing_edges,
                   response, calls, probe, gemini, suspended, http>>

\* a generate_diagram that takes a failed planner call for an empty plan
PlannerFails_swallowed ==
    /\ pc = "PromptBuilt"
    /\ gemini.pc = "Raised"
    /\ tool_calls' = <<>>
    /\ pc' = "Executing"
    /\ UNCHANGED <<CANVASES, NODES, CLUSTERS, files, CREATED_FILES, ops, last, description,
                   monitoring_requested, allowed_components, reasoning, idx, canvas_id,
                   image_path, created_nodes, existing_edges, response, calls, probe, gemini, suspended, http>>

\* generate_json_response raises: the outer except returns the failure with str(e)
PlannerFails ==
    /\ pc = "PromptBuilt"
    /\ gemini.pc = "Raised"
    /\ response' = Failure("planner", gemini.error.text, ErrorReasoning)
    /\ pc' = "Done"
    /\ UNCHANGED <<CANVASES, NODES, CLUSTERS, files, CREATED_FILES, ops, last, description,
                   monitoring_requested, allowed_components, reasoning, tool_calls, idx,
                   canvas_id, image_path, created_nodes, existing_edges, calls, probe, gemini, suspended, http>>

\* response.get("reasoning", "") and response.get("tool_calls", []) of the dict
\* that json.loads returned
PlannedReasoning(result) ==
    IF result = "{}" THEN "" ELSE "Generated microservices architecture"
PlannedToolCalls(result) == IF result = "{}" THEN {<<>>} ELSE Plans

\* generate_json_response returns {"reasoning": ..., "tool_calls": [...]}
PlannerReturns ==
    /\ pc = "PromptBuilt"
    /\ gemini.pc = "Returned"
    /\ \E plan \in PlannedToolCalls(gemini.result) : tool_calls' = plan
    /\ reasoning' = PlannedReasoning(gemini.result)
    /\ gemini' = NoGemini
    /\ idx' = 1
    /\ canvas_id' = None
    /\ image_path' = None
    /\ created_nodes' = EmptyDict
    /\ existing_edges' = {}
    /\ pc' = "Executing"
    /\ UNCHANGED <<CANVASES, NODES, CLUSTERS, files, CREATED_FILES, ops, last, description,
                   monitoring_requested, allowed_components, response, calls, probe,
                   suspended, http>>

\* loop body, `if not self._validate_tool_call(tool_call): continue`
PlanSkipInvalid ==
    /\ InLoop
    /\ ~validate_tool_call(tool_calls[idx])
    /\ idx' = idx + 1
    /\ UNCHANGED <<CANVASES, NODES, CLUSTERS, files, CREATED_FILES, ops, last, pc, description,
                   monitoring_requested, allowed_components, reasoning, tool_calls,
                   canvas_id, image_path, created_nodes, existing_edges, response, calls,
                   probe, gemini, suspended, http>>

\* loop body, a valid add_node or add_edge that the policy filter drops; the
\* rewrites of args made before the drop stay in the plan element
PlanSkipFiltered ==
    /\ InLoop
    /\ validate_tool_call(tool_calls[idx])
    /\ LET tool_name == tool_calls[idx].d["name"]
           args == PreparedArgs(tool_calls[idx], canvas_id)
       IN /\ \/ NodeSkipped(tool_name, args, canvas_id, monitoring_requested, allowed_components)
             \/ EdgeSkipped(tool_name, args, created_nodes)
          /\ tool_calls' = [tool_calls EXCEPT ![idx].d["args"].kv = args]
    /\ idx' = idx + 1
    /\ UNCHANGED <<CANVASES, NODES, CLUSTERS, files, CREATED_FILES, ops, last, pc, description,
                   monitoring_requested, allowed_components, reasoning,
                   canvas_id, image_path, created_nodes, existing_edges, response, calls,
                   probe, gemini, suspended, http>>

\* loop body, an admitted call: it is executed; an error returns the failure, a
\* result updates canvas_id / created_nodes / image_path
PlanCallTool ==
    /\ InLoop
    /\ validate_tool_call(tool_calls[idx])
    /\ LET tool_name == tool_calls[idx].d["name"]
           args == PreparedArgs(tool_calls[idx], canvas_id)
       IN /\ ~NodeSkipped(tool_name, args, canvas_id, monitoring_requested, allowed_components)
          /\ ~EdgeSkipped(tool_name, args, created_nodes)
          /\ tool_name = "create_canvas" => Cardinality(DOMAIN CANVASES) < Len(CanvasIds)
          /\ tool_calls' = [tool_calls EXCEPT ![idx].d["args"].kv = args]
          /\ existing_edges' =
                IF tool_name = "add_edge"
                THEN existing_edges \cup {<<args["source_node_id"], args["target_node_id"]>>}
                ELSE existing_edges
          /\ \E outcome \in IF tool_name \in {"create_cluster", "add_node", "render_diagram"}
                            THEN FlushOutcomes ELSE {"written"} :
                LET result == call_mcp_tool(Store, tool_name, args, outcome) IN
                /\ SetStore(result.s)
                /\ calls' = Append(calls, Issued(PlanPhase, tool_name, args, result))
                /\ IF ToolFailed(result)
                   THEN /\ response' = Failure("tool", result.err, reasoning)
                        /\ pc' = "Done"
                        /\ UNCHANGED <<idx, canvas_id, image_path, created_nodes>>
                   ELSE /\ canvas_id' = IF tool_name = "create_canvas" THEN result.ret ELSE canvas_id
                        /\ created_nodes' =
                              IF tool_name = "add_node" /\ Truthy(Get(args, "node_id", ""))
                              THEN Put(created_nodes, args["node_id"], Get(args, "node_type", ""))
                              ELSE created_nodes
                        /\ image_path' = IF tool_name = "render_diagram" THEN result.ret ELSE image_path
                        /\ idx' = idx + 1
                        /\ UNCHANGED <<pc, response>>
    /\ UNCHANGED <<ops, last, description, monitoring_requested, allowed_components,
                   reasoning, probe, gemini, suspended, http>>

RerenderCall(phase, c, r) ==
    [phase |-> phase, op |-> "render_diagram", canvas |-> c, a |-> None, b |-> None,
     err |-> r.err, ret |-> r.ret]

\* a post-processing that runs once in the middle of the plan loop
PostProcess_in_loop ==
    /\ InLoop
    /\ Truthy(canvas_id)
    /\ \A k \in 1..Len(calls) : calls[k].phase = PlanPhase
    /\ LET st == enforce_shared_edges(Store, canvas_id, created_nodes, existing_edges) IN
       \E outcome \in FlushOutcomes :
          LET r == render_diagram(st.s, canvas_id, outcome) IN
          /\ SetStore(r.s)
          /\ existing_edges' = CallerEdgesAfter(existing_edges, st)
          /\ image_path' = IF r.err = OK /\ Truthy(r.ret) THEN r.ret ELSE image_path
          /\ calls' = Append(calls \o st.calls, RerenderCall("rerender", canvas_id, r))
    /\ UNCHANGED <<ops, last, description, monitoring_requested, allowed_components, pc,
                   reasoning, tool_calls, idx, canvas_id, created_nodes, response, probe, gemini, suspended, http>>

\* after the loop, `if canvas_id:` enforce the edges, then re-render
PostProcess ==
    /\ LoopDone
    /\ Truthy(canvas_id)
    /\ LET st == enforce_shared_edges(Store, canvas_id, created_nodes, existing_edges) IN
       \E outcome \in FlushOutcomes :
          LET r == render_diagram(st.s, canvas_id, outcome) IN
          /\ SetStore(r.s)
          /\ existing_edges' = CallerEdgesAfter(existing_edges, st)
          /\ image_path' = IF r.err = OK /\ Truthy(r.ret) THEN r.ret ELSE image_path
          /\ calls' = Append(calls \o st.calls, RerenderCall("rerender", canvas_id, r))
    /\ pc' = "Rendered"
    /\ UNCHANGED <<ops, last, description, monitoring_requested, allowed_components,
                   reasoning, tool_calls, idx, canvas_id, created_nodes, response, probe, gemini, suspended, http>>

\* after the loop with no canvas created: nothing to enforce or re-render
SkipPostProcess ==
    /\ LoopDone
    /\ ~Truthy(canvas_id)
    /\ pc' = "Rendered"
    /\ UNCHANGED <<CANVASES, NODES, CLUSTERS, files, CREATED_FILES, ops, last, description,
                   monitoring_requested, allowed_components, reasoning, tool_calls, idx,
                   canvas_id, image_path, created_nodes, existing_edges, response, calls,
                   probe, gemini, suspended, http>>

\* a second render whenever nodes exist, whether or not an image path is known
SafetyNetNeeded_any_nodes == DOMAIN created_nodes # {}

SafetyNetNeeded == ~Truthy(image_path) /\ DOMAIN created_nodes # {}

\* `if not image_path and created_nodes:` attempt a second render
SafetyNet ==
    /\ pc = "Rendered"
    /\ SafetyNetNeeded
    /\ \E outcome \in FlushOutcomes :
          LET r == render_diagram(Store, canvas_id, outcome) IN
          /\ SetStore(r.s)
          /\ image_path' = IF r.err = OK THEN r.ret ELSE image_path
          /\ calls' = Append(calls, RerenderCall("safety", canvas_id, r))
    /\ pc' = "Returning"
    /\ UNCHANGED <<ops, last, description, monitoring_requested, allowed_components,
                   reasoning, tool_calls, idx, canvas_id, created_nodes, existing_edges,
                   response, probe, gemini, suspended, http>>

\* a return that reports success without looking at image_path
Finish_unchecked ==
    /\ \/ pc = "Returning"
       \/ pc = "Rendered" /\ ~SafetyNetNeeded
    /\ response' = Success(image_path, reasoning)
    /\ pc' = "Done"
    /\ UNCHANGED <<CANVASES, NODES, CLUSTERS, files, CREATED_FILES, ops, last, description,
                   monitoring_requested, allowed_components, reasoning, tool_calls, idx,
                   canvas_id, image_path, created_nodes, existing_edges, calls, probe, gemini, suspended, http>>

\* the final checks and the return: no image path is a failure; building the
\* ToolCall list of the response may raise, which the outer except turns into a failure
Finish ==
    /\ \/ pc = "Returning"
       \/ pc = "Rendered" /\ ~SafetyNetNeeded
    /\ response' =
          IF ~Truthy(image_path) THEN Failure("norender", "No diagram was rendered", reasoning)
          ELSE IF \E k \in 1..Len(tool_calls) : ~ToolCallBuilds(tool_calls[k])
               THEN Failure("exception", "ToolCall", ErrorReasoning)
          ELSE Success(image_path, reasoning)
    /\ pc' = "Done"
    /\ UNCHANGED <<CANVASES, NODES, CLUSTERS, files, CREATED_FILES, ops, last, description,
                   monitoring_requested, allowed_components, reasoning, tool_calls, idx,
                   canvas_id, image_path, created_nodes, existing_edges, calls, probe, gemini, suspended, http>>

Init ==
    /\ StoreEmpty
    /\ GenIdle
    /\ ops = 0
    /\ last = NoCall
    /\ gemini = NoGemini
    /\ suspended = NoFrame
    /\ http = NoHttp
    /\ probe = NoProbe

Next ==
    \/ BuildPrompt
    \/ GenerateJsonResponse
    \/ GenerateContentAttempt
    \/ GenerateContentSleep
    \/ ParseJsonResponse
    \/ PlannerFails
    \/ PlannerReturns
    \/ PlanSkipInvalid
    \/ PlanSkipFiltered
    \/ PlanCallTool
    \/ PostProcess
    \/ SkipPostProcess
    \/ SafetyNet
    \/ Finish

Spec == Init /\ [][Next]_vars

(***************************************************************************)
(* The planner call alone: generate_diagram up to the point where          *)
(* generate_json_response returns or raises                                *)
(***************************************************************************)
NextGemini ==
    \/ BuildPrompt
    \/ GenerateJsonResponse
    \/ GenerateContentAttempt
    \/ GenerateContentSleep
    \/ ParseJsonResponse
    \/ PlannerFails

\* every await of the call ends: wait_for bounds the model call, sleep is finite
SpecGemini == Init /\ [][NextGemini]_vars /\ WF_vars(NextGemini)

(***************************************************************************)
(* _validate_tool_call applied to tool calls of every shape                *)
(***************************************************************************)
ArgKeys == {"title", "canvas_id", "cluster_id", "cluster_name", "node_id", "node_type",
            "source_node_id", "target_node_id", "label"}
NameValues == available_tools \cup {"invalid_tool", "", None}

\* a JSON object with or without "name" and "args"; args absent, not an object, or
\* an object with the given keys
MkToolCall(hasName, name, argsKind, keys) ==
    [isDict |-> TRUE,
     d |-> (IF hasName THEN "name" :> name ELSE EmptyDict)
           @@ (IF argsKind = "absent" THEN EmptyDict
               ELSE "args" :> [isDict |-> argsKind = "dict", kv |-> [k \in keys |-> "x"]])]

ToolCallShapes ==
    {NotADict}
    \cup {MkToolCall(FALSE, None, "absent", {}), MkToolCall(FALSE, None, "notdict", {})}
    \cup {MkToolCall(FALSE, None, "dict", keys) : keys \in SUBSET ArgKeys}
    \cup {MkToolCall(TRUE, name, "absent", {}) : name \in NameValues}
    \cup {MkToolCall(TRUE, name, "notdict", {}) : name \in NameValues}
    \cup {MkToolCall(TRUE, name, "dict", keys) : name \in NameValues, keys \in SUBSET ArgKeys}

InitValidate ==
    /\ StoreEmpty
    /\ GenIdle
    /\ ops = 0
    /\ last = NoCall
    /\ gemini = NoGemini
    /\ suspended = NoFrame
    /\ http = NoHttp
    /\ \E tool_call \in ToolCallShapes :
          probe = [fn |-> "validate_tool_call", arg |-> tool_call, done |-> FALSE, out |-> FALSE]

ValidateCall ==
    /\ probe.fn = "validate_tool_call"
    /\ ~probe.done
    /\ probe' = [probe EXCEPT !.done = TRUE, !.out = validate_tool_call(probe.arg)]
    /\ UNCHANGED <<CANVASES, NODES, CLUSTERS, files, CREATED_FILES, ops, last, pc, description,
                   monitoring_requested, allowed_components, reasoning, tool_calls, idx,
                   canvas_id, image_path, created_nodes, existing_edges, response, calls, gemini, suspended, http>>

NextValidate == ValidateCall

SpecValidate == InitValidate /\ [][NextValidate]_vars

(***************************************************************************)
(* _extract_allowed_components applied to descriptions                     *)
(***************************************************************************)
MaxWords == 2      \* words of a generated description

Vocabulary ==
    {<<"s", "i", "m", "p", "l", "e">>,
     <<"s", "e", "r", "v", "i", "c", "e">>,
     <<"d", "a", "t", "a", "b", "a", "s", "e">>,
     <<"X", "R", "a", "y">>,
     <<"L", "o", "g", "g", "i", "n", "g">>,
     <<"c", "l", "o", "u", "d", "t", "r", "a", "i", "l">>,
     <<"A", "L", "B">>,
     <<"w", "i", "t", "h">>}

RECURSIVE JoinWords(_)
\* " ".join(words)
JoinWords(words) ==
    IF words = <<>> THEN <<>>
    ELSE IF Len(words) = 1 THEN words[1]
    ELSE words[1] \o <<" ">> \o JoinWords(Tail(words))

Descriptions ==
    {SimpleDescription, XRayDescription}
    \cup {JoinWords(words) : words \in UNION {[1..n -> Vocabulary] : n \in 0..MaxWords}}

InitExtract ==
    /\ StoreEmpty
    /\ GenIdle
    /\ ops = 0
    /\ last = NoCall
    /\ gemini = NoGemini
    /\ suspended = NoFrame
    /\ http = NoHttp
    /\ \E d \in Descriptions :
          probe = [fn |-> "extract_allowed_components", arg |-> d, done |-> FALSE, out |-> {}]

ExtractCall ==
    /\ probe.fn = "extract_allowed_components"
    /\ ~probe.done
    /\ probe' = [probe EXCEPT !.done = TRUE, !.out = extract_allowed_components(probe.arg)]
    /\ UNCHANGED <<CANVASES, NODES, CLUSTERS, files, CREATED_FILES, ops, last, pc, description,
                   monitoring_requested, allowed_components, reasoning, tool_calls, idx,
                   canvas_id, image_path, created_nodes, existing_edges, response, calls, gemini, suspended, http>>

NextExtract == ExtractCall

SpecExtract == InitExtract /\ [][NextExtract]_vars

(***************************************************************************)
(* _enforce_shared_edges applied to a canvas holding the created nodes     *)
(***************************************************************************)
MaxEdges == 2      \* edges already present when the enforcement pass starts

EnforceIds == {"n1", "n2", "n3"}

\* the example of the post-processor test: one routing node, two services, a
\* database, a queue and a monitoring node
ExampleNodes ==
    "r" :> "api_gateway" @@ "s1" :> "service" @@ "s2" :> "service"
    @@ "db" :> "database" @@ "q" :> "queue" @@ "m" :> "monitoring"

EnforceMaps ==
    {ExampleNodes} \cup UNION {[ids -> node_map] : ids \in SUBSET EnforceIds}

EdgeSets(nodes) ==
    IF nodes = ExampleNodes THEN {{}}
    ELSE {E \in SUBSET ((DOMAIN nodes) \X (DOMAIN nodes)) : Cardinality(E) <= MaxEdges}

RECURSIVE AddNodes(_, _, _, _)
\* add_node for each listed node, the renderer writing the image each time
AddNodes(s, c, ids, nodes) ==
    IF ids = <<>> THEN s
    ELSE AddNodes(add_node(s, c, Head(ids), nodes[Head(ids)], None, None, "written").s,
                  c, Tail(ids), nodes)

RECURSIVE AddEdges(_, _, _)
\* add_edge for each listed pair; a pair with an endpoint off the canvas is refused
AddEdges(s, c, pairs) ==
    IF pairs = <<>> THEN s
    ELSE AddEdges(add_edge(s, c, Head(pairs)[1], Head(pairs)[2]).s, c, Tail(pairs))

\* the store after create_canvas, add_node for the nodes on the canvas and add_edge
\* for the edges already present
CanvasWith(nodes, missing, edges) ==
    LET r == create_canvas(EmptyStore, "Architecture Diagram")
        s1 == AddNodes(r.s, r.ret, SeqOf(DOMAIN nodes \ missing), nodes)
    IN AddEdges(s1, r.ret, SeqOf(edges))

InitEnforce ==
    \E nodes \in EnforceMaps :
    \E edges \in EdgeSets(nodes), missing \in {{}} \cup {{n} : n \in DOMAIN nodes} :
        LET s == CanvasWith(nodes, missing, edges) IN
        /\ CANVASES = s.CANVASES
        /\ NODES = s.NODES
        /\ CLUSTERS = s.CLUSTERS
        /\ files = s.files
        /\ CREATED_FILES = s.CREATED_FILES
        /\ ops = 0
        /\ last = NoCall
        /\ gemini = NoGemini
        /\ suspended = NoFrame
        /\ http = NoHttp
        /\ pc = "Enforcing"
        /\ description = <<>>
        /\ monitoring_requested = FALSE
        /\ allowed_components = {}
        /\ reasoning = None
        /\ tool_calls = <<>>
        /\ idx = 1
        /\ canvas_id = "c1"
        /\ image_path = None
        /\ created_nodes = nodes
        /\ existing_edges = edges
        /\ response = NoResponse
        /\ calls = <<>>
        /\ probe = [fn |-> "enforce_shared_edges", nodes |-> nodes, edges |-> edges,
                    before |-> s.CANVASES["c1"].edges, done |-> FALSE]

EnforceCallStep ==
    /\ pc = "Enforcing"
    /\ LET st == enforce_shared_edges(Store, canvas_id, created_nodes, existing_edges) IN
       /\ SetStore(st.s)
       /\ existing_edges' = CallerEdgesAfter(existing_edges, st)
       /\ calls' = st.calls
    /\ probe' = [probe EXCEPT !.done = TRUE]
    /\ pc' = "Enforced"
    /\ UNCHANGED <<ops, last, description, monitoring_requested, allowed_components,
                   reasoning, tool_calls, idx, canvas_id, image_path, created_nodes,
                   response, gemini, suspended, http>>

NextEnforce == EnforceCallStep

SpecEnforce == InitEnforce /\ [][NextEnforce]_vars

(***************************************************************************)
(* _standardize_cluster_name applied to cluster names                      *)
(***************************************************************************)
\* the keys of the table, names next to them and names of no table
ClusterWords ==
    {<<"m", "i", "c", "r", "o", "s", "e", "r", "v", "i", "c", "e", "s">>,
     <<"s", "e", "r", "v", "i", "c", "e", "s">>,
     <<"w", "e", "b", " ", "t", "i", "e", "r">>,
     <<"w", "e", "b">>,
     <<"r", "o", "u", "t", "i", "n", "g">>,
     <<"s", "h", "a", "r", "e", "d", " ", "i", "n", "f", "r", "a">>,
     <<"s", "h", "a", "r", "e", "d", " ", "i", "n", "f", "r", "a", "s", "t", "r", "u", "c", "t", "u", "r", "e">>,
     <<"i", "n", "f", "r", "a", "s", "t", "r", "u", "c", "t", "u", "r", "e">>,
     <<"i", "n", "f", "r", "a">>,
     <<"d", "a", "t", "a">>,
     <<"d", "a", "t", "a", " ", "l", "a", "y", "e", "r">>,
     <<"c", "a", "c", "h", "e">>,
     <<"c", "a", "c", "h", "e", " ", "l", "a", "y", "e", "r">>,
     <<"a", "p", "i", "_", "g", "a", "t", "e", "w", "a", "y">>,
     <<"u", "n", "k", "n", "o", "w", "n", " ", "c", "l", "u", "s", "t", "e", "r">>,
     <<"w", "e", "b", "s">>,
     <<"d", "a", "t", "a", " ", " ", "l", "a", "y", "e", "r">>,
     <<"s", "h", "a", "r", "e", "d">>,
     <<"t", "i", "e", "r">>,
     <<>>}

\* the white space around a name
Paddings == {<<>>, <<" ">>, <<"\t", " ">>}

\* str.title() for the names used here: the first letter of each word in upper case
RECURSIVE Title(_, _)
Title(str, start) ==
    IF str = <<>> THEN <<>>
    ELSE <<IF start THEN UpperChar(Head(str)) ELSE Head(str)>>
         \o Title(Tail(str), Head(str) = " ")

ClusterNames ==
    {l \o w \o r : l \in Paddings, r \in Paddings,
                    w \in UNION {{x, Upper(x), Title(x, TRUE)} : x \in ClusterWords}}

InitStandardize ==
    /\ StoreEmpty
    /\ GenIdle
    /\ ops = 0
    /\ last = NoCall
    /\ gemini = NoGemini
    /\ suspended = NoFrame
    /\ http = NoHttp
    /\ \E name \in ClusterNames :
          probe = [fn |-> "standardize_cluster_name", arg |-> name, done |-> FALSE,
                   out |-> <<>>, again |-> <<>>]

\* the name is standardized, and the result is standardized once more
StandardizeCall ==
    /\ probe.fn = "standardize_cluster_name"
    /\ ~probe.done
    /\ probe' = [probe EXCEPT !.done = TRUE,
                              !.out = standardize_cluster_name(probe.arg),
                              !.again = standardize_cluster_name(standardize_cluster_name(probe.arg))]
    /\ UNCHANGED <<CANVASES, NODES, CLUSTERS, files, CREATED_FILES, ops, last, pc, description,
                   monitoring_requested, allowed_components, reasoning, tool_calls, idx,
                   canvas_id, image_path, created_nodes, existing_edges, response, calls, gemini, suspended, http>>

NextStandardize == StandardizeCall

SpecStandardize == InitStandardize /\ [][NextStandardize]_vars

(***************************************************************************)
(* Two generate_diagram calls on one event loop. The variables of the      *)
(* generation hold the locals of the call that is running, suspended holds *)
(* the locals of the call that waits; the store is shared.                 *)
(***************************************************************************)
\* the locals of the running call
Frame ==
    [pc |-> pc, description |-> description, monitoring_requested |-> monitoring_requested,
     allowed_components |-> allowed_components, reasoning |-> reasoning,
     tool_calls |-> tool_calls, idx |-> idx, canvas_id |-> canvas_id,
     image_path |-> image_path, created_nodes |-> created_nodes,
     existing_edges |-> existing_edges, response |-> response, calls |-> calls]

\* the locals of a call that has not started
IdleFrame ==
    [pc |-> "Idle", description |-> <<>>, monitoring_requested |-> FALSE,
     allowed_components |-> {}, reasoning |-> None, tool_calls |-> <<>>, idx |-> 1,
     canvas_id |-> None, image_path |-> None, created_nodes |-> EmptyDict,
     existing_edges |-> {}, response |-> NoResponse, calls |-> <<>>]

\* plans that name the canvas through the placeholder only: a plan that renders,
\* a plan with a dangling edge and no render, and a plan without a canvas
ConcurrentPlans ==
    { <<CreateCanvas, AddNode("a", "service"), RenderDiagram>>,
      <<CreateCanvas, AddNode("b", "database"), AddEdge("b", "a")>>,
      <<NotADict>> }

\* `await self.gemini_client.generate_json_response(full_prompt)` returns a plan
PlannerReturnsPlan ==
    /\ pc = "PromptBuilt"
    /\ \E plan \in ConcurrentPlans : tool_calls' = plan
    /\ reasoning' = "Generated microservices architecture"
    /\ idx' = 1
    /\ canvas_id' = None
    /\ image_path' = None
    /\ created_nodes' = EmptyDict
    /\ existing_edges' = {}
    /\ pc' = "Executing"
    /\ UNCHANGED <<CANVASES, NODES, CLUSTERS, files, CREATED_FILES, ops, last, description,
                   monitoring_requested, allowed_components, response, calls, probe, gemini,
                   suspended, http>>

\* the running call is at an await (the planner call, a tool call of the loop), has
\* not started or has returned, and the event loop runs the other call
Switch ==
    /\ suspended # NoFrame
    /\ suspended.pc # "Done"
    /\ pc \in {"Idle", "PromptBuilt", "Executing", "Done"}
    /\ suspended' = Frame
    /\ pc' = suspended.pc
    /\ description' = suspended.description
    /\ monitoring_requested' = suspended.monitoring_requested
    /\ allowed_components' = suspended.allowed_components
    /\ reasoning' = suspended.reasoning
    /\ tool_calls' = suspended.tool_calls
    /\ idx' = suspended.idx
    /\ canvas_id' = suspended.canvas_id
    /\ image_path' = suspended.image_path
    /\ created_nodes' = suspended.created_nodes
    /\ existing_edges' = suspended.existing_edges
    /\ response' = suspended.response
    /\ calls' = suspended.calls
    /\ UNCHANGED <<CANVASES, NODES, CLUSTERS, files, CREATED_FILES, ops, last, probe, gemini,
                   http>>

InitConcurrent ==
    /\ StoreEmpty
    /\ GenIdle
    /\ ops = 0
    /\ last = NoCall
    /\ gemini = NoGemini
    /\ suspended = IdleFrame
    /\ http = NoHttp
    /\ probe = NoProbe

NextConcurrent ==
    \/ BuildPrompt
    \/ PlannerReturnsPlan
    \/ PlanSkipInvalid
    \/ PlanSkipFiltered
    \/ PlanCallTool
    \/ PostProcess
    \/ SkipPostProcess
    \/ SafetyNet
    \/ Finish
    \/ Switch

SpecConcurrent == InitConcurrent /\ [][NextConcurrent]_vars

(***************************************************************************)
(* The HTTP layer (api/routes/diagram.py): get_agent and the               *)
(* /generate-diagram route, for requests handled on one event loop         *)
(***************************************************************************)
MaxRequests == 3   \* requests sent to the route

Requests == 1..MaxRequests

\* the DiagramAgent objects create_diagram_agent builds, in the order it builds them
AgentInstances == <<"agent-1", "agent-2", "agent-3", "agent-4", "agent-5">>

NoApiKey == "GEMINI_API_KEY environment variable not set"
AgentNotCreated == "Failed to create diagram agent"
DescriptionTooShort == "Description must be at least 10 characters long"
GenerationFailed == "Failed to generate diagram"
ImageNotFound == "Diagram was generated but image file was not found"
GenerationRaised == "Error occurred during diagram generation"

\* settings.GEMINI_API_KEY and os.getenv of GEMINI_API_KEY, GOOGLE_API_KEY and
\* GOOGLE_GEMINI_API_KEY
KeyConfigs ==
    { [settings |-> "test_key", env |-> <<None, None, None>>],
      [settings |-> None, env |-> <<None, "google_key", None>>],
      [settings |-> None, env |-> <<None, None, None>>],
      [settings |-> "", env |-> <<" ", None, None>>] }

\* `api_key and api_key.strip()` for the values above
NonBlank(key) == Truthy(key) /\ key # " "

\* api_key after `for key_name in possible_keys`: the first value that is not
\* blank, else the value of the last name
EnvKey(env) ==
    IF \E k \in 1..Len(env) : NonBlank(env[k])
    THEN env[CHOOSE k \in 1..Len(env) : NonBlank(env[k]) /\ \A j \in 1..(k - 1) : ~NonBlank(env[j])]
    ELSE env[Len(env)]

find_api_key(config) == IF Truthy(config.settings) THEN config.settings ELSE EnvKey(config.env)

\* create_diagram_agent returns a DiagramAgent, or None when the constructor raises
CreateOutcomes == {"created", "failed"}

\* a get_agent that builds a new agent on every call
get_agent_uncached(h, outcome) ==
    LET instance == IF outcome = "created" THEN AgentInstances[h.created + 1] ELSE None
        h1 == [h EXCEPT !.agent_instance = instance, !.created = @ + 1]
    IN IF instance = None THEN [err |-> AgentNotCreated, ret |-> None, h |-> h1]
       ELSE [err |-> OK, ret |-> instance, h |-> h1]

\* get_agent: no await of it suspends (create_diagram_agent has no await inside),
\* so the check and the assignment are one step of the event loop
get_agent(h, outcome) ==
    IF h.agent_instance # None THEN [err |-> OK, ret |-> h.agent_instance, h |-> h]
    ELSE IF ~Truthy(find_api_key(h.config)) THEN [err |-> NoApiKey, ret |-> None, h |-> h]
    ELSE LET instance == IF outcome = "created" THEN AgentInstances[h.created + 1] ELSE None
             h1 == [h EXCEPT !.agent_instance = instance, !.created = @ + 1]
         IN IF instance = None THEN [err |-> AgentNotCreated, ret |-> None, h |-> h1]
            ELSE [err |-> OK, ret |-> instance, h |-> h1]

\* a length check that forgets to strip
TooShort_unstripped(descr) == Len(descr) < 10

\* `if len(description.strip()) < 10`
TooShort(descr) == Len(Strip(descr)) < 10

\* what `await agent.generate_diagram(diagram_request)` can end with: an
\* exception, or a DiagramResponse
AgentRaised == [kind |-> "raised", success |-> FALSE, image_path |-> None]
AgentResults ==
    {AgentRaised}
    \cup {[kind |-> "returned", success |-> ok, image_path |-> path] :
             ok \in BOOLEAN, path \in {None, "", "diagram_c1.png", "diagram_c2.png"}}

HttpResponse(status, media_type, detail) ==
    [status |-> status, media_type |-> media_type, detail |-> detail]

\* a route that returns the image without looking for the file
RouteResponse_unchecked(result, fs) ==
    IF result.kind = "raised" THEN HttpResponse(500, None, GenerationRaised)
    ELSE IF ~result.success THEN HttpResponse(500, None, GenerationFailed)
    ELSE HttpResponse(200, "image/png", None)

\* the route after the agent's result is known
RouteResponse(result, fs) ==
    IF result.kind = "raised" THEN HttpResponse(500, None, GenerationRaised)
    ELSE IF ~result.success THEN HttpResponse(500, None, GenerationFailed)
    ELSE IF Truthy(result.image_path) /\ Exists(fs, result.image_path)
         THEN HttpResponse(200, "image/png", None)
    ELSE HttpResponse(500, None, ImageNotFound)

\* "", "   ", "short", "   short   ", "123456789", "1234567890", " web system "
RouteDescriptions ==
    { <<>>,
      <<" ", " ", " ">>,
      <<"s", "h", "o", "r", "t">>,
      <<" ", " ", " ", "s", "h", "o", "r", "t", " ", " ", " ">>,
      <<"1", "2", "3", "4", "5", "6", "7", "8", "9">>,
      <<"1", "2", "3", "4", "5", "6", "7", "8", "9", "0">>,
      <<" ", "w", "e", "b", " ", "s", "y", "s", "t", "e", "m", " ">> }

NoRequest ==
    [pc |-> "Idle", description |-> <<>>, get_agent_called |-> FALSE, agent |-> None,
     generate_called |-> FALSE, result |-> AgentRaised,
     response |-> HttpResponse(0, None, None)]

Respond(req, answer) == [req EXCEPT !.pc = "Responded", !.response = answer]

RouteFrame ==
    UNCHANGED <<CANVASES, NODES, CLUSTERS, files, CREATED_FILES, ops, last, pc, description,
                monitoring_requested, allowed_components, reasoning, tool_calls, idx,
                canvas_id, image_path, created_nodes, existing_edges, response, calls, probe,
                gemini, suspended>>

\* the handler up to its first suspension: the length check, get_agent, and the
\* call of agent.generate_diagram
RouteGenerateDiagram(r) ==
    /\ http.req[r].pc = "Idle"
    /\ \E descr \in RouteDescriptions, outcome \in CreateOutcomes :
          LET req == [http.req[r] EXCEPT !.description = descr] IN
          IF TooShort(descr)
          THEN http' = [http EXCEPT !.req[r] =
                            Respond(req, HttpResponse(400, None, DescriptionTooShort))]
          ELSE LET got == get_agent(http, outcome)
                   asked == [req EXCEPT !.get_agent_called = TRUE]
               IN IF got.err # OK
                  THEN http' = [got.h EXCEPT !.req[r] =
                                    Respond(asked, HttpResponse(500, None, got.err))]
                  ELSE http' = [got.h EXCEPT !.req[r] =
                                    [asked EXCEPT !.pc = "Generating", !.agent = got.ret,
                                                  !.generate_called = TRUE]]
    /\ RouteFrame

\* agent.generate_diagram ends and the handler answers
RouteAgentReturns(r) ==
    /\ http.req[r].pc = "Generating"
    /\ \E result \in AgentResults :
          http' = [http EXCEPT !.req[r] =
                      Respond([@ EXCEPT !.result = result], RouteResponse(result, files))]
    /\ RouteFrame

\* the image of an earlier generation in the temporary directory
RouteFiles ==
    <<[path |-> "diagram_c1.png",
       content |-> [canvas |-> "c1", nodes |-> EmptyBag, edges |-> EmptyBag]]>>

InitRoute ==
    /\ CANVASES = EmptyDict
    /\ NODES = EmptyDict
    /\ CLUSTERS = EmptyDict
    /\ files = RouteFiles
    /\ CREATED_FILES = {}
    /\ GenIdle
    /\ ops = 0
    /\ last = NoCall
    /\ gemini = NoGemini
    /\ suspended = NoFrame
    /\ probe = NoProbe
    /\ \E config \in KeyConfigs :
          http = [agent_instance |-> None, created |-> 0, config |-> config,
                  req |-> [r \in Requests |-> NoRequest]]

NextRoute ==
    \/ \E r \in Requests : RouteGenerateDiagram(r)
    \/ \E r \in Requests : RouteAgentReturns(r)

SpecRoute == InitRoute /\ [][NextRoute]_vars

(***************************************************************************)
(* Properties                                                              *)
(***************************************************************************)
Returned == response.returned
Succeeded == response.returned /\ response.success

\* the edges drawn on a canvas, as a set of pairs
EdgeSet(c) == BagToSet(CANVASES[c].edges)

\* C1: generate_diagram returns success=true only with a known image path whose
\* file is present when the result is produced; every other terminal state
\* returns success=false, and every terminal state has returned a result.
C1_SuccessOnlyWithArtifact ==
    /\ pc = "Done" => Returned
    /\ Returned => pc = "Done"
    /\ response.success =>
          /\ Returned
          /\ Truthy(response.image_path)
          /\ response.image_path = image_path
          /\ Exists(files, response.image_path)
    /\ (Returned /\ ~response.success) => response.image_path = None

\* C1 witness: a success whose last render call wrote no image itself
C1_Witness ==
    /\ Succeeded
    /\ calls # <<>>
    /\ calls[Len(calls)].op = "render_diagram"
    /\ \E k \in 1..Len(files) :
          /\ files[k].path = response.image_path
          /\ files[k].content.edges # CANVASES[canvas_id].edges

FailedPlanCall(k) == calls[k].phase = PlanPhase /\ calls[k].err # OK

\* C2: a failing admitted call of the plan loop is the last call the generation
\* issues (no later plan element, no enforcement edge, no re-render), and the
\* result is the failure carrying that call's error and the planner's reasoning.
C2_FailedCallAborts ==
    \A k \in 1..Len(calls) :
        FailedPlanCall(k) =>
            /\ k = Len(calls)
            /\ pc = "Done"
            /\ response = Failure("tool", calls[k].err, reasoning)
            /\ reasoning = "Generated microservices architecture"
            /\ idx <= Len(tool_calls)

\* C2 witness: a call fails with a node already on the canvas and a valid plan
\* element still to come
C2_Witness ==
    /\ Len(calls) >= 2
    /\ FailedPlanCall(Len(calls))
    /\ \E c \in DOMAIN NODES : DOMAIN NODES[c] # {}
    /\ idx < Len(tool_calls)
    /\ validate_tool_call(tool_calls[Len(tool_calls)])

\* C3: on success, every service node of the rendered canvas has an edge to every
\* database, queue or monitoring node created during the generation.
C3_ServicesReachShared ==
    Succeeded =>
        \A svc \in service_nodes(NODES[canvas_id]) :
            \A c \in DOMAIN NODES : \A shared \in shared_nodes(NODES[c]) :
                <<svc, shared>> \in EdgeSet(canvas_id)

\* the edges the three rules require for a node map, as the rules are stated
RequiredEdges(nodes) ==
    LET Of(types) == {n \in DOMAIN nodes : nodes[n] \in types} IN
    (Of({"api_gateway", "load_balancer"}) \X Of({"service"}))
    \cup (Of({"service"}) \X Of({"database", "queue", "monitoring"}))
    \cup (Of({"service", "api_gateway", "load_balancer"}) \X Of({"monitoring"}))

NineEdges ==
    {<<"r", "s1">>, <<"r", "s2">>, <<"s1", "db">>, <<"s1", "q">>, <<"s1", "m">>,
     <<"s2", "db">>, <<"s2", "q">>, <<"s2", "m">>, <<"r", "m">>}

C5_NoDanglingEdges ==
    \A c \in DOMAIN CANVASES : \A e \in EdgeSet(c) :
        e[1] \in DOMAIN NODES[c] /\ e[2] \in DOMAIN NODES[c]

\* C6: add_edge of a pair already present succeeds and leaves exactly one
\* occurrence of the pair on the canvas.
C6_AddEdgeIdempotent ==
    (last.op = "add_edge" /\ last.canvas \in DOMAIN CANVASES
        /\ last.a \in DOMAIN NODES[last.canvas] /\ last.b \in DOMAIN NODES[last.canvas]) =>
        /\ last.err = OK
        /\ CopiesIn(<<last.a, last.b>>, CANVASES[last.canvas].edges) = 1

\* C7: a plan element the validator rejects never changes the result: a
\* generation that reaches its return with no failed call returns success exactly
\* when an image path is known, as the plan without the rejected elements does.
C7_MalformedNeverFatal ==
    (Returned /\ response.error.kind # "planner"
        /\ \A k \in 1..Len(calls) : ~FailedPlanCall(k)) =>
        /\ response.success = Truthy(image_path)
        /\ response.image_path = image_path

\* the well-formedness of a tool call as the validator's contract states it
WellFormed(tool_call) ==
    /\ tool_call.isDict
    /\ "name" \in DOMAIN tool_call.d
    /\ tool_call.d["name"] \in
          {"create_canvas", "create_cluster", "add_node", "add_edge", "render_diagram"}
    /\ LET given == IF "args" \in DOMAIN tool_call.d
                    THEN (IF tool_call.d["args"].isDict THEN DOMAIN tool_call.d["args"].kv
                          ELSE {"<not a mapping>"})
                    ELSE {}
           name == tool_call.d["name"]
       IN /\ "<not a mapping>" \notin given
          /\ name = "create_canvas" => {"title"} \subseteq given
          /\ name = "create_cluster" => {"canvas_id", "cluster_id", "cluster_name"} \subseteq given
          /\ name = "add_node" => {"canvas_id", "node_id", "node_type"} \subseteq given
          /\ name = "add_edge" => {"canvas_id", "source_node_id", "target_node_id"} \subseteq given
          /\ name = "render_diagram" => {"canvas_id"} \subseteq given

\* C8: _validate_tool_call returns true exactly for the well-formed tool calls; a
\* call without an args key is validated as one with an empty mapping.
C8_ValidateIffWellFormed ==
    (probe.fn = "validate_tool_call" /\ probe.done) =>
        /\ probe.out = WellFormed(probe.arg)
        /\ (probe.arg.isDict /\ "args" \notin DOMAIN probe.arg.d) =>
              probe.out = validate_tool_call([probe.arg EXCEPT !.d = @ @@ ("args" :> EmptyArgs)])

\* C8 witness: an add_edge with all its arguments and a label is accepted
C8_Witness ==
    /\ probe.fn = "validate_tool_call"
    /\ probe.done
    /\ probe.out
    /\ probe.arg.d["name"] = "add_edge"
    /\ "label" \in DOMAIN probe.arg.d["args"].kv

NoMonitoringKeyword(descr) ==
    \A word \in {<<"m", "o", "n", "i", "t", "o", "r", "i", "n", "g">>,
                   <<"c", "l", "o", "u", "d", "w", "a", "t", "c", "h">>,
                   <<"o", "b", "s", "e", "r", "v", "a", "b", "i", "l", "i", "t", "y">>,
                   <<"x", "r", "a", "y">>,
                   <<"l", "o", "g", "g", "i", "n", "g">>} :
        ~Contains(Lower(descr), word)

IsPlanned(k, tool_name) ==
    /\ validate_tool_call(tool_calls[k])
    /\ tool_calls[k].d["name"] = tool_name

\* C9: when the description holds no monitoring keyword, no add_node of type
\* monitoring reaches the store, no canvas has a monitoring node or an edge to a
\* node that is not on it, and a generation only fails on a call it executed.
C9_MonitoringOptIn ==
    (pc # "Idle" /\ NoMonitoringKeyword(description)) =>
        /\ \A k \in 1..Len(calls) : calls[k].op = "add_node" => calls[k].b # "monitoring"
        /\ \A c \in DOMAIN NODES : monitoring_nodes(NODES[c]) = {}
        /\ \A c \in DOMAIN CANVASES : \A e \in EdgeSet(c) :
              e[1] \in DOMAIN NODES[c] /\ e[2] \in DOMAIN NODES[c]
        /\ (Returned /\ response.error.kind = "tool") =>
              (calls # <<>> /\ calls[Len(calls)].err # OK)

\* C9 witness: a success whose plan held a monitoring node and an edge from it
C9_Witness ==
    /\ Succeeded
    /\ NoMonitoringKeyword(description)
    /\ \E k \in 1..Len(tool_calls) : \E j \in (k + 1)..Len(tool_calls) :
          /\ IsPlanned(k, "add_node")
          /\ tool_calls[k].d["args"].kv["node_type"] = "monitoring"
          /\ IsPlanned(j, "add_edge")
          /\ tool_calls[j].d["args"].kv["source_node_id"] = tool_calls[k].d["args"].kv["node_id"]

HasMonitoringKeyword(descr) ==
    \E word \in synonyms["monitoring"] : Contains(Lower(descr), word)

FiveCore == {"api_gateway", "load_balancer", "service", "database", "queue"}

\* C10: the allowed set always holds the five core types and holds monitoring
\* only when the description has a monitoring keyword.
C10_MonitoringOnlyOnKeyword ==
    (probe.fn = "extract_allowed_components" /\ probe.done) =>
        /\ FiveCore \subseteq probe.out
        /\ "monitoring" \in probe.out => HasMonitoringKeyword(probe.arg)

\* C10 amended: the allowed set is the six core types whatever the description
\* says, monitoring included.
C10_AllSixAlwaysAllowed ==
    (probe.fn = "extract_allowed_components" /\ probe.done) =>
        probe.out = FiveCore \cup {"monitoring"}

\* C10 witness: the allowed set of "simple service with a database"
C10_Witness ==
    /\ probe.fn = "extract_allowed_components"
    /\ probe.done
    /\ probe.arg = SimpleDescription
    /\ ~HasMonitoringKeyword(probe.arg)

\* the plan loop stands at a valid add_node whose type is not in the allowed set
AtDisallowedNode ==
    /\ InLoop
    /\ IsPlanned(idx, "add_node")
    /\ tool_calls[idx].d["args"].kv["node_type"] \notin allowed_components

CreatedByCall(n) ==
    \E j \in 1..Len(calls) :
        calls[j].phase = PlanPhase /\ calls[j].op = "add_node" /\ calls[j].err = OK
        /\ calls[j].a = n

\* the plan loop stands at a valid add_edge with an endpoint no earlier add_node
\* of this generation created
AtDanglingEdge ==
    /\ InLoop
    /\ IsPlanned(idx, "add_edge")
    /\ \/ ~CreatedByCall(tool_calls[idx].d["args"].kv["source_node_id"])
       \/ ~CreatedByCall(tool_calls[idx].d["args"].kv["target_node_id"])

AtDuplicateNode ==
    /\ InLoop
    /\ IsPlanned(idx, "add_node")
    /\ CreatedByCall(tool_calls[idx].d["args"].kv["node_id"])

\* C13: an add_node whose node_id was already created in this generation is
\* dropped: the step of the loop at that element issues no call, returns nothing
\* and goes on to the next element.
C13_DuplicateNodeDropped ==
    [][AtDuplicateNode =>
          /\ UNCHANGED <<CANVASES, NODES, CLUSTERS, files, CREATED_FILES>>
          /\ UNCHANGED <<calls, created_nodes, response>>
          /\ pc' = "Executing"
          /\ idx' = idx + 1]_vars

\* generate_json_response has raised and generate_diagram has not handled it yet
PlannerRaised == pc = "PromptBuilt" /\ gemini.pc = "Raised"

\* C14: when the planner call fails, the next step of generate_diagram returns
\* success=false with str(e) of the planner's error as the error, and no store
\* or render operation is issued: canvases, nodes, clusters, files and tracked
\* files are unchanged.
C14_PlannerFailureFrame ==
    [][PlannerRaised =>
          /\ pc' = "Done"
          /\ response'.returned /\ ~response'.success
          /\ response'.error = [kind |-> "planner", detail |-> gemini.error.text]
          /\ response'.image_path = None
          /\ UNCHANGED <<CANVASES, NODES, CLUSTERS, files, CREATED_FILES, calls>>]_vars

\* C14 witness: the failure returned for a planner text that is not JSON
C14_Witness ==
    /\ pc = "Done"
    /\ gemini.pc = "Raised"
    /\ gemini.response = InvalidJsonContent
    /\ response = Failure("planner", "Invalid JSON response from Gemini", ErrorReasoning)
    /\ calls = <<>>

\* generate_content has returned its text (generate_json_response goes on with it)
ContentReturned == gemini.pc = "Parse" \/ gemini.error.type = "ValueError"
\* generate_content has raised
ContentRaised == gemini.pc = "Raised" /\ gemini.error.type # "ValueError"

AllFailed(attempts) == \A k \in 1..Len(attempts) : attempts[k] \in {"timeout", "error"}

\* C15: generate_content calls the model at most 3 times; it returns the text of
\* the first attempt that succeeds and tries no more; when every attempt times
\* out or raises it makes exactly 3 attempts and raises the error of the last
\* one; and the call always comes to an end.
C15_BoundedRetries ==
    /\ [](/\ Len(gemini.attempts) <= 3
          /\ ContentReturned =>
                /\ gemini.attempts # <<>>
                /\ gemini.attempts[Len(gemini.attempts)] = "text"
                /\ AllFailed(SubSeq(gemini.attempts, 1, Len(gemini.attempts) - 1))
          /\ ContentRaised =>
                /\ Len(gemini.attempts) = 3
                /\ AllFailed(gemini.attempts)
                /\ gemini.error.type =
                      (IF gemini.attempts[3] = "timeout" THEN "TimeoutError" ELSE "Exception")
          /\ (gemini.pc \in {"Attempt", "Sleep"}) => AllFailed(gemini.attempts))
    /\ <>(gemini.pc \in {"Returned", "Raised"})

\* C15 witness: the text is returned by the third attempt, after a timeout and
\* an exception
C15_Witness ==
    /\ gemini.pc = "Parse"
    /\ gemini.attempts = <<"timeout", "error", "text">>
    /\ gemini.sleeps = <<1, 2>>

\* C16: generate_json_response raises only after the capped number of planner
\* attempts, whether the attempts timed out or returned text that is not JSON.
C16_FailureOnlyAfterRetries ==
    gemini.pc = "Raised" => Len(gemini.attempts) = 3

\* the error string of a returned failure: "Tool call failed: ..." and "No diagram
\* was rendered" are never empty, error=str(e) is what the exception prints
ErrorString(r) ==
    IF r.error.kind \in {"planner", "exception"} THEN r.error.detail
    ELSE IF r.error.kind = "tool" THEN "Tool call failed"
    ELSE r.error.detail

\* C17: every result of generate_diagram is unambiguous: a failure carries a
\* non-empty error string and no image path, a success carries a non-empty
\* image path and no error.
C17_UnambiguousResult ==
    Returned =>
        /\ ~response.success =>
              /\ response.error.kind # None
              /\ Truthy(ErrorString(response))
              /\ response.image_path = None
        /\ response.success =>
              /\ Truthy(response.image_path)
              /\ response.error = NoError

\* call k of the generation is a render_diagram that returned an image path
RenderYielded(k) ==
    calls[k].op = "render_diagram" /\ calls[k].err = OK /\ Truthy(calls[k].ret)

\* the plan ran to its end: the planner answered and no admitted call failed
PlanRanThrough ==
    /\ Returned
    /\ response.error.kind # "planner"
    /\ \A k \in 1..Len(calls) : ~FailedPlanCall(k)

\* C18: when the plan ran through and no render call of the generation (in the
\* plan, after enforcement, or the safety net) yielded an image path, the result
\* is success=false with "No diagram was rendered" and the planner's reasoning.
C18_FailClosedOnNoRender ==
    (PlanRanThrough /\ \A k \in 1..Len(calls) : ~RenderYielded(k)) =>
        response = Failure("norender", "No diagram was rendered", reasoning)

\* C18 witness: a plan that creates a node and never calls render_diagram, with
\* the re-render and the safety-net render both failing
C18_Witness ==
    /\ PlanRanThrough
    /\ response.error.kind = "norender"
    /\ DOMAIN created_nodes # {}
    /\ \A k \in 1..Len(tool_calls) : ~IsPlanned(k, "render_diagram")
    /\ Len(calls) >= 2
    /\ calls[Len(calls)].phase = "safety"
    /\ calls[Len(calls) - 1].phase = "rerender"

\* C18 witness of the second case: a plan that only creates a canvas
C18_WitnessCanvasOnly ==
    /\ PlanRanThrough
    /\ response.error.kind = "norender"
    /\ tool_calls = <<CreateCanvas>>

SixTypes == {"api_gateway", "load_balancer", "service", "database", "queue", "monitoring"}

\* the four cases in which add_node(c, n, t, cluster_id = k) is to fail
AddNodeRejected(c, n, t, k) ==
    \/ c \notin DOMAIN CANVASES
    \/ n \in DOMAIN NODES[c]
    \/ t \notin SixTypes
    \/ (k # None /\ k \notin DOMAIN CLUSTERS[c])

CanvasOps == {"create_cluster", "add_node", "add_edge", "list_canvas_nodes",
              "list_canvas_clusters", "get_canvas_info", "render_diagram", "clear_canvas"}

\* C20: every operation addressed to a canvas id that create_canvas never issued
\* fails with the canvas-not-found error and changes nothing in the store:
\* canvases, nodes, clusters, files and tracked files stay as they are.
C20_UnknownCanvasRejected ==
    [][(ops' = ops + 1 /\ last'.op \in CanvasOps /\ last'.canvas \notin DOMAIN CANVASES) =>
          /\ last'.err = CanvasNotFound
          /\ UNCHANGED <<CANVASES, NODES, CLUSTERS, files, CREATED_FILES>>]_vars

\* C20 witness: list_canvas_nodes of an unknown canvas is refused while another
\* canvas holds a node and an image has been rendered
C20_Witness ==
    /\ last.op = "list_canvas_nodes"
    /\ last.canvas \notin DOMAIN CANVASES
    /\ last.err = CanvasNotFound
    /\ \E c \in DOMAIN NODES : DOMAIN NODES[c] # {}
    /\ CREATED_FILES # {}

\* the image file a render_diagram call returned
RenderedFile(path) == files[CHOOSE k \in 1..Len(files) : files[k].path = path]

\* C21: every render_diagram that returns a path returns an image of the canvas
\* as it is at the time of the call: the image shows exactly the nodes now on the
\* canvas and exactly the edges now on it, each between nodes now on the canvas
\* (so nothing cleared by clear_canvas is shown).
C21_RenderReflectsCurrent ==
    (last.op = "render_diagram" /\ last.err = OK) =>
        /\ Exists(files, last.ret)
        /\ RenderedFile(last.ret).content.canvas = last.canvas
        /\ BagToSet(RenderedFile(last.ret).content.nodes) = DOMAIN NODES[last.canvas]
        /\ RenderedFile(last.ret).content.edges = CANVASES[last.canvas].edges
        /\ \A e \in BagToSet(RenderedFile(last.ret).content.edges) :
              e[1] \in DOMAIN NODES[last.canvas] /\ e[2] \in DOMAIN NODES[last.canvas]

\* C22: create_canvas returns an identifier no earlier call returned; the new
\* canvas has no node and no cluster, and every canvas that existed keeps its
\* drawing, its nodes and its clusters.
C22_FreshEmptyCanvas ==
    [][(last'.op = "create_canvas" /\ ops' = ops + 1) =>
          /\ last'.err = OK
          /\ last'.ret \notin DOMAIN CANVASES
          /\ DOMAIN CANVASES' = DOMAIN CANVASES \cup {last'.ret}
          /\ DOMAIN NODES' = DOMAIN CANVASES'
          /\ DOMAIN CLUSTERS' = DOMAIN CANVASES'
          /\ NODES'[last'.ret] = EmptyDict
          /\ CLUSTERS'[last'.ret] = EmptyDict
          /\ CANVASES'[last'.ret].nodes = EmptyBag
          /\ CANVASES'[last'.ret].edges = EmptyBag
          /\ \A d \in DOMAIN CANVASES :
                CANVASES'[d] = CANVASES[d] /\ NODES'[d] = NODES[d] /\ CLUSTERS'[d] = CLUSTERS[d]
          /\ UNCHANGED <<files, CREATED_FILES>>]_vars

\* C22 witness: a second canvas is created while the first holds a node, a
\* cluster and an edge
C22_Witness ==
    /\ last.op = "create_canvas"
    /\ last.ret = "c2"
    /\ DOMAIN NODES["c1"] # {}
    /\ DOMAIN CLUSTERS["c1"] # {}
    /\ CANVASES["c1"].edges # EmptyBag
    /\ NODES["c2"] = EmptyDict

\* the node ids, clusters and edges a generation sent to the store
NodesOf(g) == {g.calls[k].a : k \in {j \in 1..Len(g.calls) : g.calls[j].op = "add_node"}}
ClustersOf(g) == {g.calls[k].a : k \in {j \in 1..Len(g.calls) : g.calls[j].op = "create_cluster"}}
EdgesOf(g) ==
    {<<g.calls[k].a, g.calls[k].b>> : k \in {j \in 1..Len(g.calls) : g.calls[j].op = "add_edge"}}

\* every call of generation g names the canvas g created, what g created is on
\* that canvas, and that canvas holds nothing else
OwnCanvasOnly(g) ==
    /\ \A k \in 1..Len(g.calls) : g.calls[k].canvas \in {None, Placeholder, g.canvas_id}
    /\ \A k \in 1..Len(g.calls) :
          (g.calls[k].op = "add_node" /\ g.calls[k].err = OK) =>
              g.calls[k].a \in DOMAIN NODES[g.canvas_id]
    /\ Truthy(g.canvas_id) =>
          /\ DOMAIN NODES[g.canvas_id] \subseteq NodesOf(g)
          /\ DOMAIN CLUSTERS[g.canvas_id] \subseteq ClustersOf(g)
          /\ BagToSet(CANVASES[g.canvas_id].edges) \subseteq EdgesOf(g)

\* the image a successful generation returns is an image of its own canvas, as
\* it is when the generation runs alone
OwnArtifact(g) ==
    (g.response.returned /\ g.response.success) =>
        /\ Exists(files, g.response.image_path)
        /\ RenderedFile(g.response.image_path).content.canvas = g.canvas_id

\* the two generations never work on the same canvas
DistinctCanvases ==
    (Truthy(canvas_id) /\ Truthy(suspended.canvas_id)) => canvas_id # suspended.canvas_id

\* the canvas state of two interleaved generations is separate
CanvasStateIsolated == DistinctCanvases /\ OwnCanvasOnly(Frame) /\ OwnCanvasOnly(suspended)

\* C23: two interleaved generations whose plans use the placeholder only share
\* no canvas state (what one creates is on its own canvas, never on the other's)
\* and each returns the result it returns alone: a success names an image of the
\* generation's own canvas.
C23_GenerationsIsolated ==
    /\ CanvasStateIsolated
    /\ OwnArtifact(Frame)
    /\ OwnArtifact(suspended)

\* request r calls get_agent in this step
GetAgentCalled(r) == ~http.req[r].get_agent_called /\ http'.req[r].get_agent_called

\* C24: get_agent keeps one agent: once create_diagram_agent has succeeded every
\* later call returns that instance and creates nothing; a call that finds no
\* agent creates at most one, and when that fails nothing is cached and the call
\* ends with status 500 before the agent is used.
C24_OneLazyAgent ==
    /\ [](\A r \in Requests :
             http.req[r].agent # None => http.req[r].agent = http.agent_instance)
    /\ [][\A r \in Requests : GetAgentCalled(r) =>
             IF http.agent_instance # None
             THEN /\ http'.req[r].agent = http.agent_instance
                  /\ http'.agent_instance = http.agent_instance
                  /\ http'.created = http.created
                  /\ http'.req[r].generate_called
             ELSE \/ /\ http'.agent_instance # None
                     /\ http'.req[r].agent = http'.agent_instance
                     /\ http'.created = http.created + 1
                     /\ http'.req[r].generate_called
                  \/ /\ http'.agent_instance = None
                     /\ http'.req[r].agent = None
                     /\ http'.created \in {http.created, http.created + 1}
                     /\ http'.req[r].pc = "Responded"
                     /\ http'.req[r].response.status = 500
                     /\ ~http'.req[r].generate_called]_vars

\* C24 witness: two requests hold the same agent, built by the second call of
\* create_diagram_agent after the first call failed and its request got 500
C24_Witness ==
    /\ http.created = 2
    /\ http.agent_instance = "agent-2"
    /\ \E r \in Requests : http.req[r].response.status = 500 /\ http.req[r].get_agent_called
    /\ Cardinality({r \in Requests : http.req[r].agent = "agent-2"}) = 2

\* request r has been answered after its agent returned or raised
Answered(r) == http.req[r].pc = "Responded" /\ http.req[r].generate_called

\* C25: the route answers 200 with image/png exactly when the agent's result has
\* success=true, a non-empty image_path and the file exists; success=false, no
\* image_path, a missing file or an exception of the agent give status 500.
C25_ImageOrServerError ==
    \A r \in Requests : Answered(r) =>
        LET result == http.req[r].result
            good == /\ result.kind = "returned"
                    /\ result.success
                    /\ result.image_path \notin {None, ""}
                    /\ Exists(files, result.image_path)
        IN /\ good <=> (http.req[r].response.status = 200
                         /\ http.req[r].response.media_type = "image/png")
           /\ ~good => http.req[r].response.status = 500

\* C25 witness: one request got the image, one got 500 for a success whose file
\* is missing
C25_Witness ==
    \E r, q \in Requests :
        /\ Answered(r) /\ http.req[r].response.status = 200
        /\ Answered(q) /\ http.req[q].response.detail = ImageNotFound
        /\ http.req[q].result.success
        /\ http.req[q].result.image_path = "diagram_c2.png"

\* the description of request r is shorter than 10 characters once stripped
ShortDescription(r) ==
    http.req[r].pc = "Responded" /\ Len(Strip(http.req[r].description)) < 10

\* C26: a description shorter than 10 characters after stripping is answered 400
\* and the request never calls get_agent or generate_diagram and creates no agent.
C26_ShortDescriptionRejected ==
    /\ [](\A r \in Requests : ShortDescription(r) =>
             /\ http.req[r].response.status = 400
             /\ ~http.req[r].get_agent_called
             /\ ~http.req[r].generate_called
             /\ http.req[r].agent = None)
    /\ [][\A r \in Requests :
             (http.req[r].pc = "Idle" /\ http'.req[r].pc # "Idle"
                 /\ Len(Strip(http'.req[r].description)) < 10) =>
                 /\ http'.agent_instance = http.agent_instance
                 /\ http'.created = http.created]_vars

\* C26 witness: "   short   " (11 characters, 5 once stripped) is answered 400
\* while no agent exists
C26_Witness ==
    \E r \in Requests :
        /\ http.req[r].response.status = 400
        /\ Len(http.req[r].description) >= 10
        /\ http.agent_instance = None
        /\ http.created = 0

IsPlanCall(c) == c.phase = PlanPhase

\* the calls the plan loop executed, in the order it executed them
AcceptedCalls == SelectSeq(calls, IsPlanCall)

\* C27: a successful result carries the list of the accepted tool calls: the plan
\* elements that passed the validator and the policy filter and were executed, in
\* plan order, without the dropped ones.
C27_AcceptedCallsReported ==
    Succeeded =>
        /\ "tool_calls" \in DOMAIN response
        /\ Len(response.tool_calls) = Len(AcceptedCalls)
        /\ \A k \in 1..Len(AcceptedCalls) :
              response.tool_calls[k].name = AcceptedCalls[k].op

\* call k of the history is an edge the enforcement pass added
EnforcedEdge(k) == calls[k].phase = "enforce" /\ calls[k].err = OK

\* call k of the history is a render call that returned path
RenderReturned(k, path) ==
    calls[k].op = "render_diagram" /\ calls[k].err = OK /\ calls[k].ret = path

\* C28: when a generation succeeds after the enforcement pass added an edge, the
\* image path it returns was returned by a render call made after the last
\* enforced edge; a failed re-render never leaves the render made before the
\* enforcement as the reported artifact.
C28_ArtifactAfterEnforcement ==
    (Succeeded /\ \E k \in 1..Len(calls) : EnforcedEdge(k)) =>
        \E r \in 1..Len(calls) :
            /\ RenderReturned(r, response.image_path)
            /\ \A k \in 1..Len(calls) : EnforcedEdge(k) => k < r

IsEnforceCall(c) == c.phase = "enforce"
IsRerenderCall(c) == c.phase = "rerender"
IsSafetyCall(c) == c.phase = "safety"

\* the calls issued after the plan loop
IsAfterLoop(c) == c.phase # PlanPhase

\* the plan loop has ended without an early return
LoopCompleted ==
    \/ pc \in {"Rendered", "Returning"}
    \/ pc = "Done" /\ response.error.kind \notin {"planner", "tool"}

\* a render of the plan or the re-render has given generate_diagram an image path
PathKnownBeforeSafetyNet ==
    \E k \in 1..Len(calls) :
        /\ calls[k].phase \in {PlanPhase, "rerender"}
        /\ calls[k].op = "render_diagram"
        /\ calls[k].err = OK
        /\ Truthy(calls[k].ret)

\* C29: after the plan loop the enforcement and one re-render run if and only if
\* the plan created a canvas; then one safety-net render is made if and only if no
\* image path is known and a node was created. At most two renders follow the
\* loop and no safety-net render is made while an image path is known.
C29_PostProcessingAndSafetyNet ==
    /\ [](/\ ~LoopCompleted /\ pc # "Done" => SelectSeq(calls, IsAfterLoop) = <<>>
          /\ LoopCompleted =>
                /\ Len(SelectSeq(calls, IsRerenderCall)) = IF Truthy(canvas_id) THEN 1 ELSE 0
                /\ ~Truthy(canvas_id) => SelectSeq(calls, IsEnforceCall) = <<>>
                /\ \A k \in 1..Len(calls) : IsEnforceCall(calls[k]) =>
                      \E r \in (k + 1)..Len(calls) : IsRerenderCall(calls[r])
                /\ Len(SelectSeq(calls, IsSafetyCall)) <= 1
                /\ \A k \in 1..Len(calls) : IsAfterLoop(calls[k]) /\ calls[k].op = "render_diagram" =>
                      IsRerenderCall(calls[k]) \/ IsSafetyCall(calls[k])
          /\ (pc = "Done" /\ LoopCompleted) =>
                (Len(SelectSeq(calls, IsSafetyCall)) = 1 <=>
                    (~PathKnownBeforeSafetyNet /\ DOMAIN created_nodes # {})))
    /\ [][(Len(calls') > Len(calls) /\ IsSafetyCall(calls'[Len(calls')])) =>
              /\ ~Truthy(image_path)
              /\ DOMAIN created_nodes # {}
              /\ pc = "Rendered"]_vars

\* C29 witness: a run whose re-render raised, followed by the one safety-net
\* render, which returned the image
C29_Witness ==
    /\ Succeeded
    /\ Len(SelectSeq(calls, IsRerenderCall)) = 1
    /\ Len(SelectSeq(calls, IsSafetyCall)) = 1
    /\ \E k \in 1..Len(calls) : IsRerenderCall(calls[k]) /\ calls[k].err # OK
    /\ \E k \in 1..Len(calls) : IsEnforceCall(calls[k])

\* the pair of nodes call k of the history names
PairOf(k) == <<calls[k].a, calls[k].b>>

\* C30: an add_edge that fails inside the enforcement pass is not fatal: the pass
\* returns normally and no failure result is produced, the failed pair is not
\* recorded in existing_edges, and every pair of the three rules that was not
\* present is attempted. With an empty created-node map no edge is added.
C30_EnforcementFailureNotFatal ==
    (probe.fn = "enforce_shared_edges" /\ probe.done) =>
        /\ pc = "Enforced"
        /\ response = NoResponse
        /\ \A k \in 1..Len(calls) : calls[k].err # OK => PairOf(k) \notin existing_edges
        /\ \A k \in 1..Len(calls) : calls[k].err = OK =>
              BagIn(PairOf(k), CANVASES[canvas_id].edges)
        /\ \A pair \in RequiredEdges(probe.nodes) \ probe.edges :
              \E k \in 1..Len(calls) : IsEnforceCall(calls[k]) /\ PairOf(k) = pair
        /\ DOMAIN probe.nodes = {} =>
              /\ calls = <<>>
              /\ CANVASES[canvas_id].edges = probe.before

\* C30 witness: with edges already recorded, an add_edge of the pass failed and a
\* later one added its edge
C30_Witness ==
    /\ probe.fn = "enforce_shared_edges"
    /\ probe.done
    /\ probe.edges # {}
    /\ \E k \in 1..Len(calls) : \E j \in (k + 1)..Len(calls) :
          /\ calls[k].err # OK
          /\ calls[j].err = OK
          /\ PairOf(j) \notin probe.edges

\* the step issues a call of the plan loop
PlanCallIssued ==
    /\ Len(calls') = Len(calls) + 1
    /\ IsPlanCall(calls'[Len(calls')])

\* the canvas id the last successful create_canvas of the history returned
LastCreated(h) ==
    LET created == {k \in 1..Len(h) : h[k].op = "create_canvas" /\ h[k].err = OK} IN
    IF created = {} THEN None
    ELSE h[CHOOSE k \in created : \A j \in created : j <= k].ret

C33_IncreasingBackoff ==
    /\ \A k \in 1..Len(gemini.sleeps) : gemini.sleeps[k] = retry_delay * k
    /\ \A k \in 1..Len(gemini.sleeps) : gemini.sleeps[k] = k
    /\ \A j, k \in 1..Len(gemini.sleeps) : j < k => gemini.sleeps[j] < gemini.sleeps[k]
    /\ Len(gemini.sleeps) <= max_retries - 1
    /\ gemini.pc = "Attempt" =>
          /\ Len(gemini.sleeps) = gemini.attempt
          /\ Len(gemini.attempts) = gemini.attempt
    /\ gemini.pc = "Sleep" => Len(gemini.sleeps) = Len(gemini.attempts)
    /\ gemini.pc \in {"Parse", "Raised"} => Len(gemini.sleeps) = Len(gemini.attempts) - 1
    /\ ContentRaised => gemini.sleeps = <<1, 2>>

\* C33 witness: three timeouts, a sleep of 1 and a sleep of 2 between them, and
\* the error raised with no third sleep
C33_Witness ==
    /\ gemini.pc = "Raised"
    /\ gemini.attempts = <<"timeout", "timeout", "timeout">>
    /\ gemini.sleeps = <<1, 2>>
    /\ gemini.error.type = "TimeoutError"

\* the arguments call c was issued with are those of plan element e
IssuedFor(c, e) ==
    /\ c.op = e.d["name"]
    /\ c = Issued(PlanPhase, e.d["name"], e.d["args"].kv, [err |-> c.err, ret |-> c.ret])

\* C32: the plan is executed one element after the other in plan order: the calls
\* of the plan loop are a subsequence of the plan, each element issued at most
\* once, and the enforcement edges and the renders of the post-processing are
\* issued after the last call of the plan.
C32_PlanOrderPreserved ==
    /\ [](/\ \A j, k \in 1..Len(calls) :
                (j < k /\ ~IsPlanCall(calls[j])) => ~IsPlanCall(calls[k])
          /\ Len(AcceptedCalls) <= idx
          /\ pc \in {"Executing", "Rendered", "Returning"} => Len(AcceptedCalls) <= idx - 1)
    /\ [][/\ PlanCallIssued =>
               /\ idx \in 1..Len(tool_calls)
               /\ IssuedFor(calls'[Len(calls')], tool_calls'[idx])
               /\ tool_calls'[idx].d["name"] = tool_calls[idx].d["name"]
               /\ SubSeq(calls', 1, Len(calls)) = calls
               /\ \/ idx' = idx + 1 /\ pc' = "Executing"
                  \/ idx' = idx /\ pc' = "Done" /\ calls'[Len(calls')].err # OK
          /\ pc = "Executing" => idx' \in {idx, idx + 1}
          /\ (pc = "Executing" /\ pc' = "Executing") =>
                /\ Len(tool_calls') = Len(tool_calls)
                /\ \A k \in 1..Len(tool_calls) : k # idx => tool_calls'[k] = tool_calls[k]
          /\ (calls' # calls /\ ~PlanCallIssued) =>
                /\ idx > Len(tool_calls)
                /\ idx' = idx
                /\ SubSeq(calls', 1, Len(calls)) = calls
                /\ \A k \in (Len(calls) + 1)..Len(calls') : ~IsPlanCall(calls'[k])]_vars

\* C32 witness: the four elements of a plan were executed and the enforcement
\* and the re-render followed
C32_Witness ==
    /\ pc = "Rendered"
    /\ Len(tool_calls) = 4
    /\ Len(AcceptedCalls) = 4
    /\ \E k \in 1..Len(calls) : IsEnforceCall(calls[k])
    /\ IsRerenderCall(calls[Len(calls)])

\* the synonym table as the claim states it
Synonyms ==
    {[names |-> {<<"s", "e", "r", "v", "i", "c", "e", "s">>, <<"m", "i", "c", "r", "o", "s", "e", "r", "v", "i", "c", "e", "s">>},
      to |-> <<"M", "i", "c", "r", "o", "s", "e", "r", "v", "i", "c", "e", "s">>],
     [names |-> {<<"i", "n", "f", "r", "a">>, <<"i", "n", "f", "r", "a", "s", "t", "r", "u", "c", "t", "u", "r", "e">>, <<"s", "h", "a", "r", "e", "d", " ", "i", "n", "f", "r", "a">>, <<"s", "h", "a", "r", "e", "d", " ", "i", "n", "f", "r", "a", "s", "t", "r", "u", "c", "t", "u", "r", "e">>},
      to |-> <<"S", "h", "a", "r", "e", "d", " ", "I", "n", "f", "r", "a">>],
     [names |-> {<<"w", "e", "b">>, <<"w", "e", "b", " ", "t", "i", "e", "r">>},
      to |-> <<"W", "e", "b", " ", "T", "i", "e", "r">>],
     [names |-> {<<"r", "o", "u", "t", "i", "n", "g">>},
      to |-> <<"R", "o", "u", "t", "i", "n", "g">>],
     [names |-> {<<"d", "a", "t", "a">>, <<"d", "a", "t", "a", " ", "l", "a", "y", "e", "r">>},
      to |-> <<"D", "a", "t", "a", " ", "L", "a", "y", "e", "r">>],
     [names |-> {<<"c", "a", "c", "h", "e">>, <<"c", "a", "c", "h", "e", " ", "l", "a", "y", "e", "r">>},
      to |-> <<"C", "a", "c", "h", "e", " ", "L", "a", "y", "e", "r">>]}

\* name is word up to the case of its letters and the white space around it
SameName(name, word) ==
    \E i \in 1..(Len(name) + 1) : \E j \in 0..Len(name) :
        /\ \A k \in 1..(i - 1) : name[k] \in Whitespace
        /\ \A k \in (j + 1)..Len(name) : name[k] \in Whitespace
        /\ Lower(SubSeq(name, i, j)) = word

\* C34: a cluster name is mapped through the synonym table, compared without
\* regard to case and to surrounding white space; a name not in the table is
\* returned unchanged; standardizing a standardized name returns it unchanged.
C34_ClusterNameStandardized ==
    (probe.fn = "standardize_cluster_name" /\ probe.done) =>
        /\ \A syn \in Synonyms :
              (\E word \in syn.names : SameName(probe.arg, word)) => probe.out = syn.to
        /\ (\A syn \in Synonyms : \A word \in syn.names : ~SameName(probe.arg, word)) =>
              probe.out = probe.arg
        /\ probe.again = probe.out

\* C34 witness: a padded name in capitals is mapped to Shared Infra
C34_Witness ==
    /\ probe.fn = "standardize_cluster_name"
    /\ probe.done
    /\ probe.arg = <<"\t", " ">> \o <<"I", "N", "F", "R", "A", "S", "T", "R", "U", "C", "T", "U", "R", "E">> \o <<" ">>
    /\ probe.out = <<"S", "h", "a", "r", "e", "d", " ", "I", "n", "f", "r", "a">>
    /\ probe.again = probe.out

\* C35: list_canvas_nodes returns an entry for every node now on the canvas and
\* for no other id, holding the node's id and the type the node was added with,
\* one of api_gateway, load_balancer, service, database, queue and monitoring.
C35_ListedNodesCarryType ==
    (last.op = "list_canvas_nodes" /\ last.err = OK) =>
        /\ DOMAIN last.ret = DOMAIN NODES[last.canvas]
        /\ \A n \in DOMAIN last.ret :
              /\ last.ret[n].node_id = n
              /\ last.ret[n].node_type = NODES[last.canvas][n]
              /\ last.ret[n].node_type \in node_map

\* an image produced for canvas c is in the temporary directory
ArtifactOf(c) == \E k \in 1..Len(files) : files[k].content.canvas = c

\* C36: render_diagram of a canvas of the store returns the path of an existing
\* image produced for that canvas, or fails; it never returns an image produced
\* for another canvas and it fails when no image of the canvas can be located.
C36_RenderOwnArtifactOrFail ==
    (last.op = "render_diagram" /\ last.canvas \in DOMAIN CANVASES) =>
        /\ last.err = OK =>
              /\ Exists(files, last.ret)
              /\ RenderedFile(last.ret).content.canvas = last.canvas
        /\ last.err # OK => last.err \in {FileNotFound, RendererError}
        /\ ~ArtifactOf(last.canvas) => last.err # OK

\* C37: within one generation each ordered (source, target) pair is passed to
\* add_edge at most once, the plan and the enforcement pass taken together: the
\* pass does not add a pair again and a pair repeated in the plan is added once.
C37_EachPairAddedOnce ==
    \A j, k \in 1..Len(calls) :
        (j < k /\ calls[j].op = "add_edge" /\ calls[k].op = "add_edge"
               /\ calls[j].canvas = calls[k].canvas) =>
            PairOf(j) # PairOf(k)

\* the canvases the generation drew on or rendered
CanvasesTouched ==
    {calls[k].canvas : k \in {j \in 1..Len(calls) :
                              calls[j].op # "create_canvas" /\ calls[j].err = OK}}

\* C38: a generation changes at most one canvas and, when the enforcement pass
\* starts, every id of created_nodes is a node of the canvas that is enforced and
\* rendered and every pair of existing_edges is an edge of it, also for plans
\* with more than one create_canvas.
C38_TrackingMatchesCanvas ==
    /\ Cardinality(CanvasesTouched) <= 1
    /\ (LoopDone /\ Truthy(canvas_id)) =>
          /\ DOMAIN created_nodes \subseteq DOMAIN NODES[canvas_id]
          /\ existing_edges \subseteq EdgeSet(canvas_id)

\* C39: the node types of the MCP server's add_node tool and of the store's
\* add_node agree: a node_type the server accepts is accepted by the store, and
\* each of the six enumerated types can be added through the server, so that
\* add_node through the server with a fresh id on an existing canvas can succeed.
C39_NodeTypesConsistent ==
    [][(ops' = ops + 1 /\ last'.op = "add_node" /\ last'.canvas \in DOMAIN CANVASES
            /\ last'.a \notin DOMAIN NODES[last'.canvas]) =>
          /\ last'.b \in server_node_types => last'.err # UnsupportedNodeType
          /\ last'.b \in node_map => last'.err \in {OK, RendererError}]_vars

====
